---- MODULE Spec2Model ----
(***************************************************************************)
(* Resolution engine of the package manager: specification parsing,       *)
(* registry client, sequential and thread-pool dependency expansion,      *)
(* conflict detection and conflict resolution.                            *)
(***************************************************************************)
EXTENDS Integers, Sequences, FiniteSets, TLC

(* ------------------------------------------------------------------ *)
(* Bounds of the model                                                  *)
(* ------------------------------------------------------------------ *)
\* versions of a package are 1..MaxVer, ordered as packaging.version orders them
MaxVer == 2
\* longest top-level specification list
MaxSpecs == 2
\* deepest call stack of the recursive expansion before the interpreter
\* raises RecursionError
RecursionLimit == 4
\* cache_ttl of the client, in ticks of the clock
CacheTtl == 2
\* the clock of the client runs from 0 to MaxNow
MaxNow == 3
\* most cache lookups counted by the statistics of one client
MaxLookups == 4

Names == {"a", "b"}
Versions == 1..MaxVer
Ops == {"==", ">=", "<=", ">", "<", "~=", "!="}

(* ------------------------------------------------------------------ *)
(* Specification strings as token sequences                             *)
(* ------------------------------------------------------------------ *)
NameTok(x) == [k |-> "name", s |-> x, n |-> 0]
OpTok(o) == [k |-> "op", s |-> o, n |-> 0]
VerTok(v) == [k |-> "ver", s |-> "", n |-> v]
CommaTok == [k |-> "comma", s |-> ",", n |-> 0]

\* the text of one token and of a token sequence
TokStr(t) == IF t.k = "ver" THEN ToString(t.n) ELSE t.s

RECURSIVE Join(_)
Join(toks) == IF toks = <<>> THEN "" ELSE TokStr(Head(toks)) \o Join(Tail(toks))

\* str.lower() on the names the model uses
Lower(s) == IF s = "A" THEN "a" ELSE IF s = "B" THEN "b" ELSE s

\* sub in s, for an operator text s
Occurs(sub, s) == \/ sub = s
                  \/ sub = ">" /\ s = ">="
                  \/ sub = "<" /\ s = "<="

\* sub in spec_string
InStr(sub, toks) == \E i \in 1..Len(toks) : toks[i].k = "op" /\ Occurs(sub, toks[i].s)

\* index of the first occurrence of sub
FirstAt(sub, toks) ==
    CHOOSE i \in 1..Len(toks) :
        /\ toks[i].k = "op" /\ Occurs(sub, toks[i].s)
        /\ \A j \in 1..(i-1) : ~(toks[j].k = "op" /\ Occurs(sub, toks[j].s))

\* any(op in version for op in ['==', '>=', '<=', '>', '<', '~=', '!='])
HasAnyOp(toks) == \E i \in 1..Len(toks) : toks[i].k = "op"

(* ------------------------------------------------------------------ *)
(* packaging.specifiers.SpecifierSet: a set of clauses (op, version)    *)
(* ------------------------------------------------------------------ *)
Clause(o, v) == [op |-> o, ver |-> v]

\* the release series of a version: versions 2k-1 and 2k share one series
Series(v) == (v + 1) \div 2

\* Specifier.contains for one clause
ClauseContains(c, v) ==
    CASE c.op = "==" -> v = c.ver
      [] c.op = "!=" -> v # c.ver
      [] c.op = ">=" -> v >= c.ver
      [] c.op = "<=" -> v <= c.ver
      [] c.op = ">"  -> v > c.ver
      [] c.op = "<"  -> v < c.ver
      [] c.op = "~=" -> v >= c.ver /\ Series(v) = Series(c.ver)

\* the comma-separated pieces of a specifier text
RECURSIVE Pieces(_, _)
Pieces(toks, cur) ==
    IF toks = <<>> THEN <<cur>>
    ELSE IF Head(toks).k = "comma" THEN <<cur>> \o Pieces(Tail(toks), <<>>)
    ELSE Pieces(Tail(toks), Append(cur, Head(toks)))

\* a piece is a valid specifier when it is an operator followed by a version
ValidPiece(p) == Len(p) = 2 /\ p[1].k = "op" /\ p[2].k = "ver"

\* SpecifierSet(text): empty pieces are dropped, an invalid piece raises
SpecifierSetOk(toks) ==
    \A i \in 1..Len(Pieces(toks, <<>>)) :
        LET p == Pieces(toks, <<>>)[i] IN p = <<>> \/ ValidPiece(p)

SpecifierSetOf(toks) ==
    LET ps == Pieces(toks, <<>>)
    IN  { Clause(ps[i][1].s, ps[i][2].n) : i \in { j \in 1..Len(ps) : ValidPiece(ps[j]) } }

(* ------------------------------------------------------------------ *)
(* parse_package_spec                                                   *)
(* ------------------------------------------------------------------ *)
\* the operator the if/elif chain selects, "" when the chain falls to else
ChosenOp(toks) ==
    IF InStr("==", toks) THEN "=="
    ELSE IF InStr(">=", toks) THEN ">="
    ELSE IF InStr("<=", toks) THEN "<="
    ELSE IF InStr(">", toks) THEN ">"
    ELSE IF InStr("<", toks) THEN "<"
    ELSE IF InStr("~=", toks) THEN "~="
    ELSE IF InStr("!=", toks) THEN "!="
    ELSE ""

\* PackageSpec(name, version_spec): the constructor raises on an invalid specifier text
PackageSpec(nameToks, version) ==
    [ ok |-> SpecifierSetOk(version),
      name |-> Lower(Join(nameToks)),
      version_spec |-> version,
      specifier_set |-> SpecifierSetOf(version) ]

\* a version text without an operator is made a minimum version
VersionSpecOf(version) ==
    IF version # <<OpTok(">="), VerTok(0)>> /\ ~HasAnyOp(version)
    THEN <<OpTok(">=")>> \o version
    ELSE version

parse_package_spec(toks) ==
    LET op == ChosenOp(toks)
        i == FirstAt(op, toks)
        nameToks == IF op = "" THEN toks ELSE SubSeq(toks, 1, i - 1)
        version == IF op = "" THEN <<OpTok(">="), VerTok(0)>>
                   ELSE SubSeq(toks, i + 1, Len(toks))
    IN  PackageSpec(nameToks, VersionSpecOf(version))

\* _parse_dependency_string: bracketed extras and parenthesised markers are
\* removed; an empty remainder gives None (ok and none both FALSE-free record)
StripMarkers(toks) == SelectSeq(toks, LAMBDA t : t.k \notin {"extra", "marker"})

parse_dependency_string(dep) ==
    LET d == StripMarkers(dep)
    IN  IF d = <<>>
        THEN [none |-> TRUE, spec |-> PackageSpec(<<>>, <<>>)]
        ELSE [none |-> FALSE, spec |-> parse_package_spec(d)]

(* ------------------------------------------------------------------ *)
(* Ordered dictionaries (Python dict): a sequence of [key, val] entries *)
(* ------------------------------------------------------------------ *)
DictKeys(d) == { d[i].key : i \in 1..Len(d) }
DictHas(d, k) == k \in DictKeys(d)
DictGet(d, k) == d[CHOOSE i \in 1..Len(d) : d[i].key = k].val
DictSet(d, k, v) ==
    IF DictHas(d, k)
    THEN [i \in 1..Len(d) |-> IF d[i].key = k THEN [key |-> k, val |-> v] ELSE d[i]]
    ELSE Append(d, [key |-> k, val |-> v])

(* ------------------------------------------------------------------ *)
(* State                                                                *)
(* ------------------------------------------------------------------ *)
VARIABLES
    mode,                \* "seq": OptimizedDependencyResolver, sequential path;
                         \* "par": OptimizedDependencyResolver, parallel path;
                         \* "pool": ParallelDependencyResolver, thread pool
    package_specs,       \* the specification strings given to resolve_dependencies
    registry,            \* the registry: releases, runtime compatibility, requires_dist
    pc,                  \* "start", "expand", "returned", "raised", "optimized"
    specs,               \* the parsed PackageSpec list
    package_constraints, \* dict: name -> list of SpecifierSet
    heap,                \* the ResolvedPackage objects created so far
    resolved_packages,   \* dict: name -> index of a ResolvedPackage in heap
    tasks,               \* per top-level specification: state, call stack, returned object
    conflicts,           \* self.conflicts: what the detection pass returned
    expanded,            \* the packages as expansion left them, before conflict handling
    result,              \* the ResolutionResult (and the strategy it was made under)
    p_in, p_out,         \* parse_package_spec called on its own: argument and value
    resolved_versions,   \* parallel path: dict name -> version of resolve_packages_parallel
    run,                 \* number of the resolve_dependencies call under way
    prev,                \* mode and packages of the call before it
    optimized,           \* the ResolutionResult optimize_versions returned
    now,                 \* time.time() of the client
    cache,               \* _package_info_cache and _cache_timestamps: key -> [ts, data]
    stats,               \* the client's counters
    last,                \* the last call of a client method: what it met and did
    exit_status,         \* exit status of the resolve command, -1 while it runs
    compat,              \* _compatibility_cache: (name, version) -> bool, one target runtime
    q_in, q_out,         \* find_optimal_version called on its own: arguments and value
    info,                \* _package_info_cache of a client shared by threads: key -> data
    stamps,              \* _cache_timestamps of that client: key -> time
    clear_pc,            \* clear_cache of that client: number of caches cleared so far
    workers,             \* the threads that call get_package_info on that client
    batch                \* resolve_packages_parallel of that client: phase, names, coroutines

\* what no step of a single resolve_dependencies call writes
callVars == << run, prev, optimized >>
clientVars == << now, cache, stats, last, compat >>
selectVars == << q_in, q_out >>
concVars == << info, stamps, clear_pc, workers, batch >>
auxVars == << callVars, clientVars, exit_status, selectVars, concVars >>

vars == << mode, package_specs, registry, pc, specs, package_constraints, heap,
           resolved_packages, tasks, conflicts, expanded, result, p_in, p_out,
           resolved_versions, auxVars >>

runVars == << mode, package_specs, registry, pc, specs, package_constraints, heap,
              resolved_packages, tasks, conflicts, expanded, result >>

(* ------------------------------------------------------------------ *)
(* The registry and the client (OptimizedPyPIClient)                    *)
(* ------------------------------------------------------------------ *)
max_versions_per_package == 30

\* Version.is_prerelease: the version texts of the registry that are
\* pre-releases or development releases
IsPrerelease(v) == v \in registry.prerelease

\* Specifier.prereleases: an inclusive clause written with a pre-release
ClausePrereleases(c) == c.op \in {"==", ">=", "<=", "~="} /\ IsPrerelease(c.ver)

\* SpecifierSet.contains: a pre-release is contained only when a clause of the
\* set names a pre-release; otherwise every clause contains the version
Contains(ss, v) ==
    /\ IsPrerelease(v) => \E c \in ss : ClausePrereleases(c)
    /\ \A c \in ss : ClauseContains(c, v)

\* the keys of the 'releases' map of a package; a package the registry does
\* not know (or cannot deliver) has none
Releases(n) == IF n \in DOMAIN registry.releases THEN registry.releases[n] ELSE {}

RECURSIVE SortedSeq(_)
SortedSeq(S) ==
    IF S = {} THEN <<>>
    ELSE LET m == CHOOSE x \in S : \A y \in S : x <= y
         IN  <<m>> \o SortedSeq(S \ {m})

Reverse(q) == [i \in 1..Len(q) |-> q[Len(q) + 1 - i]]

LastN(q, k) == IF Len(q) > k THEN SubSeq(q, Len(q) - k + 1, Len(q)) ELSE q

get_available_versions(n) == LastN(SortedSeq(Releases(n)), max_versions_per_package)

\* the release list of the document of n holds a key that is not a version
\* ("1.0-bogus!"), beside the versions of Releases(n): sorted(versions,
\* key=parse) raises InvalidVersion on it
SortRaises(n) == Releases(n) # {} /\ n \in registry.malformed

\* requires_python of a release: not declared (""), a constraint that
\* contains the target runtime, one that excludes it, or a text SpecifierSet
\* does not accept
RequiresPythonOf(n, v) ==
    IF <<n, v>> \in registry.undeclared THEN ""
    ELSE IF <<n, v>> \in registry.unparsable THEN "unparsable"
    ELSE IF <<n, v>> \in registry.incompatible THEN "excludes"
    ELSE "contains"

\* PythonVersionManager.check_compatibility for the target runtime: an
\* exception of SpecifierSet gives True
check_compatibility(package_requires_python) ==
    CASE package_requires_python = "" -> TRUE
      [] package_requires_python = "unparsable" -> TRUE
      [] package_requires_python = "contains" -> TRUE
      [] package_requires_python = "excludes" -> FALSE

\* no metadata, or no declared requires_python: compatible; otherwise the
\* declared constraint decides
check_python_compatibility(n, v) ==
    IF v \notin Releases(n) \/ RequiresPythonOf(n, v) = "" THEN TRUE
    ELSE check_compatibility(RequiresPythonOf(n, v))

\* the spec argument left at its default None
NoSpecGiven == { Clause("None", 0) }

\* the scan from the newest version down, stopped at max_versions results
RECURSIVE ScanCompatible(_, _, _, _, _, _)
ScanCompatible(n, avail, i, acc, ss, max_versions) ==
    IF i = 0 THEN acc
    ELSE IF ss # NoSpecGiven /\ ~Contains(ss, avail[i])
         THEN ScanCompatible(n, avail, i - 1, acc, ss, max_versions)
    ELSE IF check_python_compatibility(n, avail[i])
         THEN IF Len(acc) + 1 >= max_versions
              THEN Append(acc, avail[i])
              ELSE ScanCompatible(n, avail, i - 1, Append(acc, avail[i]), ss, max_versions)
         ELSE ScanCompatible(n, avail, i - 1, acc, ss, max_versions)

\* ss is the specifier set of the PackageSpec given, or NoSpecGiven
find_python_compatible_versions(n, ss, max_versions) ==
    LET avail == get_available_versions(n)
    IN  Reverse(ScanCompatible(n, avail, Len(avail), <<>>, ss, max_versions))

\* versions whose text carries alpha, beta, rc, dev or pre
HasPreSuffix(v) == v \in registry.suffixed

\* 0 stands for None
find_optimal_version(n, ss, prefer_stable) ==
    LET compatible == find_python_compatible_versions(n, ss, 5)
        stable == SelectSeq(compatible, LAMBDA v : ~HasPreSuffix(v))
    IN  IF compatible = <<>> THEN 0
        ELSE IF prefer_stable /\ stable # <<>> THEN stable[Len(stable)]
        ELSE compatible[Len(compatible)]

\* requires_dist of the release entry: what the package lists, or nothing
\* for a release that has no such entry
RequiresDistOfRelease(n, v) ==
    IF <<n, v>> \in registry.depless THEN <<>> ELSE registry.requires_dist[n]

get_dependencies(n, v) ==
    IF v \in Releases(n) THEN RequiresDistOfRelease(n, v) ELSE <<>>

\* ParallelPyPIClient.find_compatible_versions: the versions that satisfy the
\* constraint, ascending, runtime compatibility not confirmed
find_compatible_versions(n, ss) ==
    SelectSeq(get_available_versions(n), LAMBDA v : Contains(ss, v))

(* ------------------------------------------------------------------ *)
(* Conflict detection and resolution (ConflictResolver)                 *)
(* ------------------------------------------------------------------ *)
\* str(SpecifierSet): the clauses as text, sorted, joined by commas
OpRank(o) ==
    CASE o = "!=" -> 1 [] o = "<" -> 2 [] o = "<=" -> 3 [] o = "==" -> 4
      [] o = ">" -> 5 [] o = ">=" -> 6 [] o = "~=" -> 7

ClauseBefore(c, d) == OpRank(c.op) < OpRank(d.op) \/ (c.op = d.op /\ c.ver <= d.ver)

RECURSIVE SpecStr(_)
SpecStr(ss) ==
    IF ss = {} THEN <<>>
    ELSE LET c == CHOOSE x \in ss : \A y \in ss : ClauseBefore(x, y)
             rest == SpecStr(ss \ {c})
         IN  <<OpTok(c.op), VerTok(c.ver)>>
                 \o (IF rest = <<>> THEN <<>> ELSE <<CommaTok>> \o rest)

\* constraints[0] & constraints[1] & ...: the clauses of all of them
Intersection(constraints) == UNION { constraints[i] : i \in 1..Len(constraints) }

\* 'not intersection': a SpecifierSet is falsy when it has no clause
NotIntersection(constraints) == Cardinality(Intersection(constraints)) = 0

\* seeded fault: only the first entry of a dependency list is looked at
AffectedByFirstDependency(n, rp, h) ==
    { rp[i].key : i \in { j \in 1..Len(rp) :
          /\ h[rp[j].val].dependencies # <<>>
          /\ h[rp[j].val].dependencies[1] = n } }

\* the resolved packages whose dependency list names the package
AffectedPackages(n, rp, h) ==
    { rp[i].key : i \in { j \in 1..Len(rp) :
          \E d \in 1..Len(h[rp[j].val].dependencies) : h[rp[j].val].dependencies[d] = n } }

Suggestions(n, constraints, rp, h) ==
    (IF DictHas(rp, n)
     THEN << [kind |-> "keep", ver |-> h[DictGet(rp, n)].version, text |-> <<>>] >>
     ELSE <<>>)
    \o [i \in 1..Len(constraints) |->
            [kind |-> "use", ver |-> 0, text |-> SpecStr(constraints[i])]]

PackageConflict(n, constraints, rp, h) ==
    [ package_name |-> n,
      conflicting_versions |-> [i \in 1..Len(constraints) |-> SpecStr(constraints[i])],
      reason |-> "Conflicting version constraints for " \o n,
      affected_packages |-> AffectedPackages(n, rp, h),
      resolution_suggestions |-> Suggestions(n, constraints, rp, h),
      severity |-> IF Cardinality(AffectedPackages(n, rp, h)) > 2 THEN "high" ELSE "medium",
      auto_resolvable |-> TRUE ]

\* the conflicts of the names in flagged, in the order of the constraints dict
RECURSIVE ConflictList(_, _, _, _)
ConflictList(entries, flagged, rp, h) ==
    IF entries = <<>> THEN <<>>
    ELSE (IF Head(entries).key \in flagged
          THEN << PackageConflict(Head(entries).key, Head(entries).val, rp, h) >>
          ELSE <<>>)
         \o ConflictList(Tail(entries), flagged, rp, h)

\* the names detect_conflicts reports
ConflictingNames(pcs) ==
    { n \in DictKeys(pcs) : Len(DictGet(pcs, n)) > 1 /\ NotIntersection(DictGet(pcs, n)) }

detect_conflicts(rp, pcs, h) == ConflictList(pcs, ConflictingNames(pcs), rp, h)

\* seeded fault: only the first constraint is looked at
satisfies_first_constraint(v, constraints) ==
    constraints # <<>> =>
        SpecifierSetOk(constraints[1]) /\ Contains(SpecifierSetOf(constraints[1]), v)

satisfies_constraints(v, constraints) ==
    \A i \in 1..Len(constraints) :
        SpecifierSetOk(constraints[i]) /\ Contains(SpecifierSetOf(constraints[i]), v)

\* compatible_versions after the sort
RankedCompatible(n, prefer_latest) ==
    LET compatible == SelectSeq(get_available_versions(n),
                                LAMBDA v : check_python_compatibility(n, v))
    IN  IF prefer_latest THEN Reverse(compatible) ELSE compatible

\* position of the first ranked version that satisfies every constraint, 0 when none
FirstSatisfying(ranked, constraints) ==
    IF \E i \in 1..Len(ranked) : satisfies_constraints(ranked[i], constraints)
    THEN CHOOSE i \in 1..Len(ranked) :
            /\ satisfies_constraints(ranked[i], constraints)
            /\ \A j \in 1..(i-1) : ~satisfies_constraints(ranked[j], constraints)
    ELSE 0

NoResolution ==
    [ none |-> TRUE, conflict_id |-> "", package_name |-> "", chosen_version |-> 0,
      reason |-> "", strategy_used |-> "", alternatives_considered |-> <<>> ]

auto_resolve_conflict(conflict, strategy) ==
    LET n == conflict.package_name
        ranked == RankedCompatible(n, strategy.prefer_latest)
        k == FirstSatisfying(ranked, conflict.conflicting_versions)
    IN  IF ~conflict.auto_resolvable THEN NoResolution
        ELSE IF get_available_versions(n) = <<>> THEN NoResolution
        ELSE IF ranked = <<>> THEN NoResolution
        ELSE [ none |-> FALSE,
               conflict_id |-> "uuid4",
               package_name |-> n,
               chosen_version |-> IF k = 0 THEN ranked[1] ELSE ranked[k],
               reason |-> "Auto-resolved using " \o strategy.strategy \o " strategy",
               strategy_used |-> strategy.strategy,
               alternatives_considered |-> IF k = 0 THEN ranked ELSE SubSeq(ranked, 1, k) ]

\* seeded fault: "manual" resolved like "auto"
resolve_conflicts_manual_as_auto(cs, strategy) ==
    LET attempts == [i \in 1..Len(cs) |-> auto_resolve_conflict(cs[i], strategy)]
    IN  [ raised |-> cs # <<>> /\ strategy.strategy = "fail",
          resolutions |-> IF strategy.strategy \in {"auto", "manual"}
                          THEN SelectSeq(attempts, LAMBDA r : ~r.none)
                          ELSE <<>> ]

\* resolve_conflicts: raised is the ValueError of strategy "fail"
resolve_conflicts(cs, strategy) ==
    LET attempts == [i \in 1..Len(cs) |-> auto_resolve_conflict(cs[i], strategy)]
    IN  [ raised |-> cs # <<>> /\ strategy.strategy = "fail",
          resolutions |-> IF strategy.strategy = "auto"
                          THEN SelectSeq(attempts, LAMBDA r : ~r.none)
                          ELSE <<>> ]

apply_resolution(resolution, rp, h) ==
    IF DictHas(rp, resolution.package_name)
    THEN [h EXCEPT ![DictGet(rp, resolution.package_name)] =
              [@ EXCEPT !.version = resolution.chosen_version, !.conflicts = <<>>]]
    ELSE h

RECURSIVE ApplyAll(_, _, _)
ApplyAll(resolutions, rp, h) ==
    IF resolutions = <<>> THEN h
    ELSE ApplyAll(Tail(resolutions), rp, apply_resolution(Head(resolutions), rp, h))

(* ------------------------------------------------------------------ *)
(* Inputs                                                               *)
(* ------------------------------------------------------------------ *)
Str1(n) == << NameTok(n) >>
Str3(n, o, v) == << NameTok(n), OpTok(o), VerTok(v) >>
Str6(n, o1, v1, o2, v2) ==
    << NameTok(n), OpTok(o1), VerTok(v1), CommaTok, OpTok(o2), VerTok(v2) >>

\* the top-level specification strings of a run: exact pins
RunSpecStrings == { Str3(n, "==", v) : n \in Names, v \in Versions }

\* two pins of one name
PinPairs(n) == { << Str3(n, "==", v), Str3(n, "==", w) >> : v \in Versions, w \in Versions }

\* the specification lists of a run: every list of at most MaxSpecs pins, and
\* the lists that pin each name twice
SpecLists ==
    UNION { [1..k -> RunSpecStrings] : k \in 1..MaxSpecs }
    \cup { p \o q : p \in PinPairs("a"), q \in PinPairs("b") }

Other(n) == CHOOSE m \in Names : m # n

\* requires_dist of a package: nothing, or one dependency on the other
\* package, written "other (>=v)" as the registry writes it
RequiresDistOf(n) ==
    { <<>>, << << NameTok(Other(n)), [k |-> "marker", s |-> "(>=1)", n |-> 0] >> >> }

\* releases 1..top of each package (top 0: the package cannot be fetched);
\* the versions from a threshold on declare a requires_python that excludes
\* the target runtime
Registries ==
    { [ releases |-> [n \in Names |-> 1..top[n]],
        incompatible |-> { <<n, v>> : n \in Names, v \in from..MaxVer },
        prerelease |-> {},
        suffixed |-> {},
        undeclared |-> {},
        unparsable |-> {},
        depless |-> {},
        malformed |-> {},
        patch |-> FALSE,
        requires_dist |-> rd ] :
      top \in [Names -> 0..MaxVer], from \in 1..(MaxVer + 1),
      rd \in { f \in [Names -> UNION { RequiresDistOf(n) : n \in Names }] :
                  \A n \in Names : f[n] \in RequiresDistOf(n) } }

\* the same registries with pre-releases among the version texts: some of
\* them spelled with a suffix that find_optimal_version looks for ("2rc1"),
\* the others in the short spelling ("2a1")
RegistriesPre ==
    { [r EXCEPT !.prerelease = ps[1], !.suffixed = ps[2]] :
      r \in { q \in Registries : \A n \in Names : q.releases[n] # {} },
      ps \in { x \in (SUBSET Versions) \X (SUBSET Versions) : x[2] \subseteq x[1] } }

\* the conflict strategies; prefer_latest is read by "auto" alone and keeps
\* its default with the others
Strategies ==
    { [strategy |-> "auto", prefer_latest |-> pl] : pl \in BOOLEAN }
    \cup { [strategy |-> s, prefer_latest |-> TRUE] : s \in {"manual", "ignore", "fail"} }

NoResult ==
    [ packages |-> <<>>, conflicts |-> <<>>, package_conflicts |-> <<>>,
      resolutions |-> <<>>, success |-> FALSE, dependency_tree |-> <<>>,
      conflict_resolution_strategy |-> [strategy |-> "", prefer_latest |-> FALSE] ]

NoSpec == PackageSpec(<<>>, <<>>)

NoPrev == [mode |-> "", packages |-> <<>>]

NoCall ==
    [ op |-> "", key |-> <<>>, present |-> FALSE, age |-> 0, index_present |-> FALSE,
      index_age |-> 0, fetched |-> 0, hits |-> 0, misses |-> 0, failed |-> FALSE,
      raised |-> FALSE, value |-> <<>> ]

NoQuery == [name |-> "", ss |-> {}, prefer_stable |-> FALSE]

NoStats == [api_calls |-> 0, cache_hits |-> 0, cache_misses |-> 0]

\* the threads of the pool that share one client
NumWorkers == 2
Workers == 1..NumWorkers

\* resolve_packages_parallel has not been called
NoBatch == [phase |-> "none", names |-> <<>>, coros |-> <<>>, next |-> 0]

\* a thread that is not inside get_package_info
IdleWorker == [pos |-> "idle", name |-> "", seen |-> ""]

Idle ==
    /\ pc = "start"
    /\ specs = <<>>
    /\ package_constraints = <<>>
    /\ heap = <<>>
    /\ resolved_packages = <<>>
    /\ tasks = <<>>
    /\ conflicts = <<>>
    /\ resolved_versions = <<>>
    /\ run = 1
    /\ prev = NoPrev
    /\ optimized = NoResult
    /\ now = 0
    /\ cache = <<>>
    /\ stats = NoStats
    /\ last = NoCall
    /\ exit_status = -1
    /\ compat = <<>>
    /\ info = <<>>
    /\ stamps = <<>>
    /\ clear_pc = 0
    /\ workers = [w \in Workers |-> IdleWorker]
    /\ batch = NoBatch
    /\ expanded = <<>>
    /\ result = NoResult

Init ==
    /\ mode \in {"seq", "pool"}
    /\ package_specs \in SpecLists
    \* the lists of four pins are resolved one specification after the other
    /\ mode = "pool" => Len(package_specs) <= MaxSpecs
    /\ registry \in Registries
    /\ Idle
    /\ p_in = <<>>
    /\ p_out = NoSpec
    /\ q_in = NoQuery
    /\ q_out = -1

(* ------------------------------------------------------------------ *)
(* resolve_dependencies: parsing and the initial constraints            *)
(* ------------------------------------------------------------------ *)
RECURSIVE BuildConstraints(_, _)
BuildConstraints(parsed, pcs) ==
    IF parsed = <<>> THEN pcs
    ELSE LET sp == Head(parsed)
             old == IF DictHas(pcs, sp.name) THEN DictGet(pcs, sp.name) ELSE <<>>
         IN  BuildConstraints(Tail(parsed),
                              DictSet(pcs, sp.name, Append(old, sp.specifier_set)))

Frame(sp) == [spec |-> sp, ph |-> "enter", obj |-> 0, deps |-> <<>>, di |-> 1]

\* the sequential resolver and the parallel path's loop over the specifications
\* run them one after the other, the pool submits them all
InitialTasks(parsed) ==
    [i \in 1..Len(parsed) |->
        [ st |-> IF mode = "pool" \/ i = 1 THEN "running" ELSE "pending",
          stack |-> << [Frame(parsed[i]) EXCEPT
                          !.ph = IF mode = "par" THEN "partop" ELSE "enter"] >>,
          ret |-> 0 ]]

\* resolve_packages_parallel: the versions find_optimal_version returns for the
\* specifications of a name, None left out
OptimalFor(parsed, n) ==
    { find_optimal_version(n, parsed[i].specifier_set, TRUE) :
        i \in { j \in 1..Len(parsed) : parsed[j].name = n } } \ {0}

\* the dicts resolve_packages_parallel can return: for each name the version
\* of the future that completed last among those that found one
ResolvedVersionsOutcomes(parsed) ==
    LET found == { n \in Names : OptimalFor(parsed, n) # {} }
    IN  { f \in [found -> Versions] : \A n \in found : f[n] \in OptimalFor(parsed, n) }

\* resolve_dependencies up to the expansion: the maps are cleared, the
\* specifications parsed, the constraints recorded
Begin ==
    /\ pc = "start"
    /\ package_specs # <<>>
    /\ heap' = <<>>
    /\ resolved_packages' = <<>>
    /\ conflicts' = <<>>
    /\ LET parsed == [i \in 1..Len(package_specs) |-> parse_package_spec(package_specs[i])]
       IN  IF \E i \in 1..Len(parsed) : ~parsed[i].ok
           THEN /\ pc' = "raised"
                /\ package_constraints' = <<>>
                /\ resolved_versions' = <<>>
                /\ UNCHANGED << specs, tasks >>
           ELSE /\ pc' = "expand"
                /\ specs' = parsed
                /\ package_constraints' = BuildConstraints(parsed, <<>>)
                /\ tasks' = InitialTasks(parsed)
                /\ IF mode = "par"
                   THEN resolved_versions' \in ResolvedVersionsOutcomes(parsed)
                   ELSE resolved_versions' = <<>>
    /\ UNCHANGED << mode, package_specs, registry, expanded, result, p_in, p_out, auxVars >>

(* ------------------------------------------------------------------ *)
(* Expansion: _resolve_package_optimized and _resolve_package_worker    *)
(* ------------------------------------------------------------------ *)
Top(t) == tasks[t].stack[Len(tasks[t].stack)]

SetTop(t, f) == [tasks EXCEPT ![t].stack[Len(tasks[t].stack)] = f]

ResolvedPackage(n, v) ==
    [name |-> n, version |-> v, dependencies |-> <<>>, conflicts |-> <<>>, is_direct |-> TRUE]

\* seeded fault: the map keyed by the whole requirement instead of the name
InsertKeyByRequirement(sp) == sp.name \o Join(sp.version_spec)

\* the key under which a newly created package is stored
InsertKey(sp) == sp.name

\* the version the sequential resolver selects, 0 for none
SelectOptimized(sp) ==
    LET optimal == find_optimal_version(sp.name, sp.specifier_set, TRUE)
        fallback == find_python_compatible_versions(sp.name, sp.specifier_set, 5)
    IN  IF optimal # 0 THEN optimal
        ELSE IF fallback = <<>> THEN 0
        ELSE fallback[Len(fallback)]

\* seeded fault: a worker that finds a package of the name already created
\* by another call settles for the oldest candidate
SelectWorkerYieldsOldest(sp) ==
    LET compatible == find_python_compatible_versions(sp.name, sp.specifier_set, 10)
        fallback == find_compatible_versions(sp.name, sp.specifier_set)
        taken == \E i \in 1..Len(heap) : heap[i].name = sp.name
    IN  IF compatible # <<>>
        THEN IF taken THEN compatible[1] ELSE compatible[Len(compatible)]
        ELSE IF fallback = <<>> THEN 0
        ELSE fallback[Len(fallback)]

\* the version a pool worker selects, 0 for none
SelectWorker(sp) ==
    LET compatible == find_python_compatible_versions(sp.name, sp.specifier_set, 10)
        fallback == find_compatible_versions(sp.name, sp.specifier_set)
    IN  IF compatible # <<>> THEN compatible[Len(compatible)]
        ELSE IF fallback = <<>> THEN 0
        ELSE fallback[Len(fallback)]

SelectVersion(sp) == IF mode # "pool" THEN SelectOptimized(sp) ELSE SelectWorker(sp)

\* the dependency strings a frame walks: the sequential resolver takes the first five
DepsToWalk(n, v) ==
    LET deps == get_dependencies(n, v)
    IN  IF mode # "pool" THEN SubSeq(deps, 1, IF Len(deps) < 5 THEN Len(deps) ELSE 5)
        ELSE deps

\* seeded fault: a specification that gave no package ends the ones after it
SiblingCancelledOnFailure(i, t, value) ==
    IF value = 0 /\ i > t THEN [st |-> "collected", stack |-> <<>>, ret |-> 0]
    ELSE IF mode # "pool" /\ i = t + 1 THEN [tasks[i] EXCEPT !.st = "running"]
    ELSE tasks[i]

\* what the return of the top-level call t means for another specification
\* i: the loop over the specifications goes on to the next one whatever the
\* call returned; the futures of a pool are left alone
SiblingAfter(i, t, value) ==
    IF mode # "pool" /\ i = t + 1 THEN [tasks[i] EXCEPT !.st = "running"]
    ELSE tasks[i]

\* the call on top of task t returns value (0 for None): the caller appends the
\* dependency's name to its package and goes on; a top-level call ends the task
AfterReturn(t, value, h) ==
    LET stack == tasks[t].stack
        len == Len(stack)
    IN  IF len > 1
        THEN LET parent == stack[len - 1]
             IN  [ heap |-> [h EXCEPT ![parent.obj].dependencies =
                                  Append(@, stack[len].spec.name)],
                   tasks |-> [tasks EXCEPT ![t].stack =
                                  Append(SubSeq(stack, 1, len - 2),
                                         [parent EXCEPT !.di = @ + 1])] ]
        ELSE [ heap |-> h,
               tasks |-> [i \in 1..Len(tasks) |->
                    IF i = t
                    THEN [ st |-> IF mode # "pool" THEN "collected" ELSE "finished",
                           stack |-> <<>>, ret |-> value ]
                    ELSE SiblingAfter(i, t, value)] ]

\* seeded fault: the membership test never finds the name
NeverResolved(n) == FALSE

\* the test 'name in self.resolved_packages'
AlreadyResolved(n) == DictHas(resolved_packages, n)

Running(t) == pc = "expand" /\ tasks[t].st = "running" /\ tasks[t].stack # <<>>

\* the membership test at the entry of the routine
Enter(t) ==
    /\ Running(t)
    /\ Top(t).ph = "enter"
    /\ IF AlreadyResolved(Top(t).spec.name)
       THEN LET r == AfterReturn(t, DictGet(resolved_packages, Top(t).spec.name), heap)
            IN  heap' = r.heap /\ tasks' = r.tasks
       ELSE /\ tasks' = SetTop(t, [Top(t) EXCEPT !.ph = "select"])
            /\ heap' = heap
    /\ UNCHANGED << mode, package_specs, registry, pc, specs, package_constraints,
                    resolved_packages, conflicts, expanded, result, p_in, p_out >>
    /\ UNCHANGED << resolved_versions, auxVars >>

\* version selection, creation of the package, its insertion in the map
\* and the fetch of its dependency strings
Select(t) ==
    /\ Running(t)
    /\ Top(t).ph = "select"
    /\ LET sp == Top(t).spec
           v == SelectVersion(sp)
       IN  IF SortRaises(sp.name)
           THEN \* get_available_versions raises InvalidVersion: nothing catches it
                \* under resolve_dependencies, the pool keeps it in the future
                /\ heap' = heap
                /\ resolved_packages' = resolved_packages
                /\ IF mode # "pool"
                   THEN pc' = "raised" /\ tasks' = tasks
                   ELSE /\ pc' = pc
                        /\ tasks' = [tasks EXCEPT ![t] =
                                        [st |-> "finished", stack |-> <<>>, ret |-> -1]]
           ELSE IF v = 0
           THEN LET r == AfterReturn(t, 0, heap)
                IN  /\ heap' = r.heap
                    /\ tasks' = r.tasks
                    /\ resolved_packages' = resolved_packages
                    /\ pc' = pc
           ELSE /\ heap' = Append(heap, ResolvedPackage(sp.name, v))
                /\ resolved_packages' = DictSet(resolved_packages, InsertKey(sp), Len(heap) + 1)
                /\ tasks' = SetTop(t, [Top(t) EXCEPT !.ph = "loop", !.obj = Len(heap) + 1,
                                                     !.deps = DepsToWalk(sp.name, v),
                                                     !.di = 1])
                /\ pc' = pc
    /\ UNCHANGED << mode, package_specs, registry, specs, package_constraints,
                    conflicts, expanded, result, p_in, p_out >>
    /\ UNCHANGED << resolved_versions, auxVars >>

\* parallel path, one specification of the loop over specs: its package is
\* created with the version of resolved_versions and stored without a
\* membership test; a name without a version is passed over
ParTop(t) ==
    /\ Running(t)
    /\ Top(t).ph = "partop"
    /\ LET sp == Top(t).spec
       IN  IF sp.name \notin DOMAIN resolved_versions
           THEN LET r == AfterReturn(t, 0, heap)
                IN  /\ heap' = r.heap
                    /\ tasks' = r.tasks
                    /\ resolved_packages' = resolved_packages
           ELSE /\ heap' = Append(heap, ResolvedPackage(sp.name, resolved_versions[sp.name]))
                /\ resolved_packages' = DictSet(resolved_packages, sp.name, Len(heap) + 1)
                /\ tasks' = SetTop(t, [Top(t) EXCEPT
                                !.ph = "loop", !.obj = Len(heap) + 1,
                                !.deps = DepsToWalk(sp.name, resolved_versions[sp.name]),
                                !.di = 1])
    /\ UNCHANGED << mode, package_specs, registry, pc, specs, package_constraints,
                    conflicts, expanded, result, p_in, p_out >>
    /\ UNCHANGED << resolved_versions, auxVars >>

\* one turn of the loop over the dependency strings, or the return after it
Loop(t) ==
    /\ Running(t)
    /\ Top(t).ph = "loop"
    /\ LET f == Top(t)
           d == parse_dependency_string(f.deps[f.di])
       IN  IF f.di > Len(f.deps)
           THEN LET r == AfterReturn(t, f.obj, heap)
                IN  heap' = r.heap /\ tasks' = r.tasks /\ pc' = pc
           ELSE IF (~d.none /\ ~d.spec.ok) \/ Len(tasks[t].stack) >= RecursionLimit
           THEN \* the PackageSpec constructor raises, or the call overflows the stack
                /\ heap' = heap
                /\ IF mode # "pool"
                   THEN pc' = "raised" /\ tasks' = tasks
                   ELSE /\ pc' = pc
                        /\ tasks' = [tasks EXCEPT ![t] =
                                        [st |-> "finished", stack |-> <<>>, ret |-> -1]]
           ELSE IF d.none \/ (mode # "pool" /\ AlreadyResolved(d.spec.name))
           THEN /\ tasks' = SetTop(t, [f EXCEPT !.di = @ + 1])
                /\ heap' = heap /\ pc' = pc
           ELSE /\ tasks' = [tasks EXCEPT ![t].stack = Append(@, Frame(d.spec))]
                /\ heap' = heap /\ pc' = pc
    /\ UNCHANGED << mode, package_specs, registry, specs, package_constraints,
                    resolved_packages, conflicts, expanded, result, p_in, p_out >>
    /\ UNCHANGED << resolved_versions, auxVars >>

\* the pool's caller takes a finished future and stores its package
Collect(t) ==
    /\ pc = "expand"
    /\ mode = "pool"
    /\ tasks[t].st = "finished"
    /\ resolved_packages' =
          IF tasks[t].ret > 0
          THEN DictSet(resolved_packages, specs[t].name, tasks[t].ret)
          ELSE resolved_packages
    /\ tasks' = [tasks EXCEPT ![t].st = "collected"]
    /\ UNCHANGED << mode, package_specs, registry, pc, specs, package_constraints,
                    heap, conflicts, expanded, result, p_in, p_out >>
    /\ UNCHANGED << resolved_versions, auxVars >>

(* ------------------------------------------------------------------ *)
(* _resolve_dependency_worker and _resolve_dependencies_parallel of the *)
(* pool resolver, which resolve_dependencies does not call, called on   *)
(* their own (mode "dep")                                               *)
(* ------------------------------------------------------------------ *)
\* the worker on top of task t returns value (0 for None) to the collecting
\* loop of _resolve_dependencies_parallel, which stores a package it is
\* handed and appends its name to the parent; the outermost call returns
\* to its caller
DepAfterReturn(t, value, h, rp) ==
    LET stack == tasks[t].stack
        len == Len(stack)
    IN  IF len > 1
        THEN LET parent == stack[len - 1]
                 dep_name == stack[len].spec.name
             IN  [ heap |-> IF value > 0
                            THEN [h EXCEPT ![parent.obj].dependencies = Append(@, dep_name)]
                            ELSE h,
                   resolved_packages |-> IF value > 0 THEN DictSet(rp, dep_name, value) ELSE rp,
                   tasks |-> [tasks EXCEPT ![t].stack =
                                  Append(SubSeq(stack, 1, len - 2),
                                         [parent EXCEPT !.di = @ + 1])] ]
        ELSE [ heap |-> h, resolved_packages |-> rp,
               tasks |-> [tasks EXCEPT ![t] =
                             [st |-> "collected", stack |-> <<>>, ret |-> value]] ]

\* what the steps of the dependency worker leave alone
DepFrame ==
    /\ UNCHANGED << mode, package_specs, registry, specs, package_constraints,
                    conflicts, expanded, result, p_in, p_out >>
    /\ UNCHANGED << resolved_versions, auxVars >>

\* the membership test at the entry of _resolve_dependency_worker
DepEnter(t) ==
    /\ Running(t)
    /\ mode = "dep"
    /\ Top(t).ph = "enter"
    /\ IF AlreadyResolved(Top(t).spec.name)
       THEN LET r == DepAfterReturn(t, DictGet(resolved_packages, Top(t).spec.name),
                                    heap, resolved_packages)
            IN  heap' = r.heap /\ tasks' = r.tasks /\ resolved_packages' = r.resolved_packages
       ELSE /\ tasks' = SetTop(t, [Top(t) EXCEPT !.ph = "select"])
            /\ UNCHANGED << heap, resolved_packages >>
    /\ pc' = pc
    /\ DepFrame

\* the newest version that satisfies the constraint; the package is created
\* and kept by the worker, the map is not written
DepSelect(t) ==
    /\ Running(t)
    /\ mode = "dep"
    /\ Top(t).ph = "select"
    /\ LET sp == Top(t).spec
           compatible_versions == find_compatible_versions(sp.name, sp.specifier_set)
       IN  IF compatible_versions = <<>>
           THEN LET r == DepAfterReturn(t, 0, heap, resolved_packages)
                IN  heap' = r.heap /\ tasks' = r.tasks
                       /\ resolved_packages' = r.resolved_packages
           ELSE LET v == compatible_versions[Len(compatible_versions)]
                IN  /\ heap' = Append(heap, [ResolvedPackage(sp.name, v)
                                                EXCEPT !.is_direct = FALSE])
                    /\ resolved_packages' = resolved_packages
                    /\ tasks' = SetTop(t, [Top(t) EXCEPT !.ph = "loop", !.obj = Len(heap) + 1,
                                                         !.deps = get_dependencies(sp.name, v),
                                                         !.di = 1])
    /\ pc' = pc
    /\ DepFrame

\* _resolve_dependencies_parallel for the package of the top frame: a worker
\* is submitted for the next dependency, or the package is returned; an
\* error of the outermost call reaches the caller, an error below it is
\* caught by the collecting loop one level up
DepLoop(t) ==
    /\ Running(t)
    /\ mode = "dep"
    /\ Top(t).ph = "loop"
    /\ LET f == Top(t)
           d == parse_dependency_string(f.deps[f.di])
           stack == tasks[t].stack
           len == Len(stack)
       IN  IF f.di > Len(f.deps)
           THEN LET r == DepAfterReturn(t, f.obj, heap, resolved_packages)
                IN  heap' = r.heap /\ tasks' = r.tasks
                       /\ resolved_packages' = r.resolved_packages /\ pc' = pc
           ELSE IF (~d.none /\ ~d.spec.ok) \/ len >= RecursionLimit
           THEN /\ UNCHANGED << heap, resolved_packages >>
                /\ IF len = 1
                   THEN pc' = "raised" /\ tasks' = tasks
                   ELSE /\ pc' = pc
                        /\ tasks' = [tasks EXCEPT ![t].stack =
                                        Append(SubSeq(stack, 1, len - 2),
                                               [stack[len - 1] EXCEPT !.di = @ + 1])]
           ELSE IF d.none
           THEN /\ tasks' = SetTop(t, [f EXCEPT !.di = @ + 1])
                /\ UNCHANGED << heap, resolved_packages >> /\ pc' = pc
           ELSE /\ tasks' = [tasks EXCEPT ![t].stack = Append(@, Frame(d.spec))]
                /\ UNCHANGED << heap, resolved_packages >> /\ pc' = pc
    /\ DepFrame

(* ------------------------------------------------------------------ *)
(* resolve_dependencies: detection, conflict handling, the result       *)
(* ------------------------------------------------------------------ *)
PackagesOf(rp, h) == [i \in 1..Len(rp) |-> h[rp[i].val]]

\* _build_dependency_tree: tree[package.name] = package.dependencies
RECURSIVE BuildTree(_, _)
BuildTree(pkgs, tree) ==
    IF pkgs = <<>> THEN tree
    ELSE BuildTree(Tail(pkgs), DictSet(tree, Head(pkgs).name, Head(pkgs).dependencies))

\* success=len(self.conflicts) == 0 or len(resolutions) > 0
Success(cs, resolutions) == Len(cs) = 0 \/ Len(resolutions) > 0

\* the resolutions resolve_dependencies ends with: none when handling is
\* skipped or the ValueError of resolve_conflicts is caught
ResolutionsOf(cs, strategy) ==
    LET attempt == resolve_conflicts(cs, strategy)
    IN  IF cs # <<>> /\ strategy.strategy # "ignore" /\ ~attempt.raised
        THEN attempt.resolutions
        ELSE <<>>

\* seeded fault: the detection pass starts when the first worker has ended
FirstCollected == tasks # <<>> /\ \E t \in 1..Len(tasks) : tasks[t].st = "collected"

\* the loop over the specifications, or the with block of the pool, has ended
AllCollected == tasks # <<>> /\ \A t \in 1..Len(tasks) : tasks[t].st = "collected"

\* lines 110-152 of resolve_dependencies, for the conflicts cs of the detection pass
FinishWith(cs, strategy) ==
    /\ pc = "expand"
    /\ AllCollected
    /\ LET resolutions == ResolutionsOf(cs, strategy)
           h == ApplyAll(resolutions, resolved_packages, heap)
       IN  /\ conflicts' = cs
           /\ expanded' = PackagesOf(resolved_packages, heap)
           /\ heap' = h
           /\ result' =
                [ packages |-> PackagesOf(resolved_packages, h),
                  conflicts |-> [i \in 1..Len(cs) |-> cs[i].reason],
                  package_conflicts |-> cs,
                  resolutions |-> resolutions,
                  success |-> Success(cs, resolutions),
                  dependency_tree |-> BuildTree(PackagesOf(resolved_packages, h), <<>>),
                  conflict_resolution_strategy |-> strategy ]
    /\ pc' = "returned"
    /\ UNCHANGED << mode, package_specs, registry, specs, package_constraints,
                    resolved_packages, tasks, p_in, p_out >>
    /\ UNCHANGED << resolved_versions, auxVars >>

Finish ==
    \E strategy \in Strategies :
        FinishWith(detect_conflicts(resolved_packages, package_constraints, heap), strategy)

\* the names with more than one recorded constraint: the only ones the
\* detection pass looks at
MultiNames(pcs) == { n \in DictKeys(pcs) : Len(DictGet(pcs, n)) > 1 }

\* resolve_dependencies called without a strategy: ConflictResolutionStrategy()
DefaultStrategy == [strategy |-> "auto", prefer_latest |-> TRUE]

FinishDefault ==
    FinishWith(detect_conflicts(resolved_packages, package_constraints, heap),
               DefaultStrategy)

\* resolve_dependencies is called a second time with the same list, on the
\* same resolver or on one built with the other value of use_parallel; the
\* registry is the same
Again ==
    /\ pc = "returned"
    /\ run = 1
    /\ run' = 2
    /\ prev' = [mode |-> mode, packages |-> result.packages]
    /\ optimized' = optimized
    /\ mode' \in {"seq", "par"}
    /\ pc' = "start"
    /\ UNCHANGED << package_specs, registry, specs, package_constraints, heap,
                    resolved_packages, tasks, conflicts, expanded, result,
                    p_in, p_out, resolved_versions, clientVars, exit_status, selectVars, concVars >>

\* resolve_dependencies is called again on the same resolver with the same
\* specifications in another order; the registry is the same
AgainPermuted ==
    /\ pc = "returned"
    /\ run = 1
    /\ run' = 2
    /\ prev' = [mode |-> mode, packages |-> result.packages]
    /\ optimized' = optimized
    /\ \E f \in Permutations(DOMAIN package_specs) :
          package_specs' = [i \in DOMAIN package_specs |-> package_specs[f[i]]]
    /\ pc' = "start"
    /\ UNCHANGED << mode, registry, specs, package_constraints, heap,
                    resolved_packages, tasks, conflicts, expanded, result,
                    p_in, p_out, resolved_versions, clientVars, exit_status, selectVars,
                    concVars >>

\* the same lines for every outcome the detection pass can hand over
FinishDetected ==
    \E strategy \in Strategies, flagged \in SUBSET MultiNames(package_constraints) :
        FinishWith(ConflictList(package_constraints, flagged, resolved_packages, heap),
                   strategy)

(* ------------------------------------------------------------------ *)
(* parse_package_spec called on its own                                 *)
(* ------------------------------------------------------------------ *)
ParseNames == Names \cup {"A"}

ParseInputs ==
    { Str1(n) : n \in ParseNames }
    \cup { Str3(n, o, v) : n \in ParseNames, o \in Ops, v \in Versions }
    \cup { Str6(n, o1, v1, o2, v2) :
             n \in Names, o1 \in Ops, v1 \in Versions, o2 \in Ops, v2 \in Versions }

ParseCall ==
    /\ p_in # <<>>
    /\ p_out = NoSpec
    /\ p_out' = parse_package_spec(p_in)
    /\ UNCHANGED << runVars, p_in >>
    /\ UNCHANGED << resolved_versions, auxVars >>

(* ------------------------------------------------------------------ *)
(* The client's cache: get_package_info, get_package_metadata and the   *)
(* methods built on them, called on their own                           *)
(* ------------------------------------------------------------------ *)
\* _cache_key: the name, or name and version
IndexKey(n) == << n >>
MetaKey(n, v) == << n, v >>

\* seeded fault: the timestamp is not looked at
FreshForever(c, key) == key \in DOMAIN c

\* _is_cache_valid
Fresh(c, key) == key \in DOMAIN c /\ now - c[key].ts < CacheTtl

CachePut(c, key, data) ==
    [k \in DOMAIN c \cup {key} |-> IF k = key THEN [ts |-> now, data |-> data] ELSE c[k]]

\* what a request to the registry can end with: the document, or an error
\* (404, timeout, transport failure, another status that is not 200)
FetchOutcomes(n) ==
    (IF Releases(n) = {} THEN {"not_found"} ELSE {"ok"})
    \cup {"timeout", "transport", "status"}

\* the errors the except clause of get_package_info catches
RequestException == {"not_found", "timeout", "transport", "status"}

\* None of get_package_info; a fetched document is named by its package
NoInfo == ""

Count(s, field) == [s EXCEPT ![field] = @ + 1]

\* seeded fault: the failure is stored like a document
get_package_info_caching_failure(c, s, n, outcome) ==
    IF Fresh(c, IndexKey(n))
    THEN [ cache |-> c, stats |-> Count(s, "cache_hits"), value |-> c[IndexKey(n)].data,
           fetched |-> 0, failed |-> FALSE, raised |-> FALSE ]
    ELSE [ cache |-> CachePut(c, IndexKey(n), IF outcome = "ok" THEN n ELSE NoInfo),
           stats |-> Count(Count(s, "cache_misses"), "api_calls"),
           value |-> IF outcome = "ok" THEN n ELSE NoInfo,
           fetched |-> 1, failed |-> outcome # "ok", raised |-> FALSE ]

\* get_package_info: the cache, the counters and the value after the call
get_package_info(c, s, n, outcome) ==
    IF Fresh(c, IndexKey(n))
    THEN [ cache |-> c, stats |-> Count(s, "cache_hits"), value |-> c[IndexKey(n)].data,
           fetched |-> 0, failed |-> FALSE, raised |-> FALSE ]
    ELSE LET s1 == Count(Count(s, "cache_misses"), "api_calls")
         IN  IF outcome = "ok"
             THEN [ cache |-> CachePut(c, IndexKey(n), n), stats |-> s1, value |-> n,
                    fetched |-> 1, failed |-> FALSE, raised |-> FALSE ]
             ELSE [ cache |-> c, stats |-> s1, value |-> NoInfo,
                    fetched |-> 1, failed |-> TRUE,
                    raised |-> outcome \notin RequestException ]

\* None of get_package_metadata
NoMetadata == [name |-> "", version |-> 0, dependencies |-> <<>>, requires_python |-> ""]

\* the PackageInfo built from the release entry of the document
PackageInfo(n, v) ==
    [ name |-> n, version |-> v, dependencies |-> RequiresDistOfRelease(n, v),
      requires_python |-> RequiresPythonOf(n, v) ]

\* get_package_metadata: on a miss the document comes from get_package_info
get_package_metadata(c, s, n, v, outcome) ==
    IF Fresh(c, MetaKey(n, v))
    THEN [ cache |-> c, stats |-> Count(s, "cache_hits"), value |-> c[MetaKey(n, v)].data,
           fetched |-> 0, failed |-> FALSE, raised |-> FALSE ]
    ELSE LET r == get_package_info(c, Count(Count(s, "cache_misses"), "api_calls"), n, outcome)
         IN  IF r.raised \/ r.value = NoInfo \/ v \notin Releases(n)
             THEN [r EXCEPT !.value = NoMetadata]
             ELSE [r EXCEPT !.cache = CachePut(r.cache, MetaKey(n, v), PackageInfo(n, v)),
                            !.value = PackageInfo(n, v)]

\* what the call met and did, for a call with the key given
CallRecord(op, key, n, r) ==
    [ op |-> op, key |-> key,
      present |-> key \in DOMAIN cache,
      age |-> IF key \in DOMAIN cache THEN now - cache[key].ts ELSE 0,
      index_present |-> IndexKey(n) \in DOMAIN cache,
      index_age |-> IF IndexKey(n) \in DOMAIN cache THEN now - cache[IndexKey(n)].ts ELSE 0,
      fetched |-> r.fetched,
      hits |-> r.stats.cache_hits - stats.cache_hits,
      misses |-> r.stats.cache_misses - stats.cache_misses,
      failed |-> r.failed,
      raised |-> r.raised,
      value |-> r.value ]

Lookups == stats.cache_hits + stats.cache_misses

ClientStep(rec, r) ==
    /\ Lookups < MaxLookups
    /\ cache' = r.cache
    /\ stats' = r.stats
    /\ last' = rec
    /\ compat' = compat
    /\ UNCHANGED << runVars, p_in, p_out, resolved_versions, callVars, now, exit_status,
                    selectVars, concVars >>

GetPackageInfo(n) ==
    \E outcome \in FetchOutcomes(n) :
        LET r == get_package_info(cache, stats, n, outcome)
        IN  ClientStep(CallRecord("get_package_info", IndexKey(n), n, r), r)

GetPackageMetadata(n, v) ==
    \E outcome \in FetchOutcomes(n) :
        LET r == get_package_metadata(cache, stats, n, v, outcome)
        IN  ClientStep(CallRecord("get_package_metadata", MetaKey(n, v), n, r), r)

\* get_available_versions of the client: [] without a document
GetAvailableVersions(n) ==
    \E outcome \in FetchOutcomes(n) :
        LET r == get_package_info(cache, stats, n, outcome)
            raises == r.value # NoInfo /\ SortRaises(r.value)
            versions == IF r.value = NoInfo \/ raises THEN <<>>
                        ELSE get_available_versions(r.value)
        IN  ClientStep([CallRecord("get_available_versions", IndexKey(n), n, r)
                            EXCEPT !.value = versions, !.raised = r.raised \/ raises], r)

\* get_dependencies of the client: [] without metadata
GetDependencies(n, v) ==
    \E outcome \in FetchOutcomes(n) :
        LET r == get_package_metadata(cache, stats, n, v, outcome)
            deps == IF r.value = NoMetadata THEN <<>> ELSE r.value.dependencies
        IN  ClientStep([CallRecord("get_dependencies", MetaKey(n, v), n, r)
                            EXCEPT !.value = deps], r)

\* seeded fault: an answer counts as cached only while the metadata it
\* was computed from is within the ttl
CompatCachedWithinTtl(key) == key \in DOMAIN compat /\ Fresh(cache, key)

\* the test 'cache_key in self._compatibility_cache'
CompatCached(key) == key \in DOMAIN compat

\* check_python_compatibility of the client: the result is kept in
\* _compatibility_cache, which has no timestamp
CheckPythonCompatibility(n, v) ==
    \E outcome \in FetchOutcomes(n) :
        /\ Lookups < MaxLookups
        /\ IF CompatCached(MetaKey(n, v))
           THEN /\ stats' = Count(stats, "cache_hits")
                /\ last' = [NoCall EXCEPT !.op = "check_python_compatibility",
                                          !.key = MetaKey(n, v), !.present = TRUE,
                                          !.hits = 1, !.value = compat[MetaKey(n, v)]]
                /\ UNCHANGED << cache, compat >>
           ELSE LET r == get_package_metadata(cache, Count(stats, "cache_misses"), n, v, outcome)
                    answer == IF r.value = NoMetadata \/ r.value.requires_python = ""
                              THEN TRUE
                              ELSE check_compatibility(r.value.requires_python)
                IN  /\ cache' = r.cache
                    /\ stats' = r.stats
                    /\ compat' = [k \in DOMAIN compat \cup {MetaKey(n, v)} |->
                                     IF k = MetaKey(n, v) THEN answer ELSE compat[k]]
                    /\ last' = [CallRecord("check_python_compatibility", MetaKey(n, v), n, r)
                                    EXCEPT !.present = FALSE, !.value = answer]
        /\ UNCHANGED << runVars, p_in, p_out, resolved_versions, callVars, now, exit_status,
                        selectVars, concVars >>

\* check_python_compatibility as a function of the client's state: the
\* caches c and k and the counters s before the call, all three and the
\* answer after it
check_python_compatibility_cached(c, s, k, n, v, outcome) ==
    IF MetaKey(n, v) \in DOMAIN k
    THEN [ cache |-> c, stats |-> Count(s, "cache_hits"), compat |-> k,
           value |-> k[MetaKey(n, v)] ]
    ELSE LET r == get_package_metadata(c, Count(s, "cache_misses"), n, v, outcome)
             answer == IF r.value = NoMetadata \/ r.value.requires_python = ""
                       THEN TRUE
                       ELSE check_compatibility(r.value.requires_python)
         IN  [ cache |-> r.cache, stats |-> r.stats,
               compat |-> [x \in DOMAIN k \cup {MetaKey(n, v)} |->
                              IF x = MetaKey(n, v) THEN answer ELSE k[x]],
               value |-> answer ]

\* the loop of find_python_compatible_versions over reversed(available_versions):
\* st holds the client's caches and counters and the versions appended so far
RECURSIVE ScanClient(_, _, _, _, _, _, _)
ScanClient(st, n, avail, i, ss, max_versions, outcome) ==
    IF i = 0 THEN st
    ELSE IF ss # NoSpecGiven /\ ~Contains(ss, avail[i])
         THEN ScanClient(st, n, avail, i - 1, ss, max_versions, outcome)
    ELSE LET r == check_python_compatibility_cached(st.cache, st.stats, st.compat,
                                                    n, avail[i], outcome)
             seen == [ cache |-> r.cache, stats |-> r.stats, compat |-> r.compat,
                       found |-> IF r.value THEN Append(st.found, avail[i]) ELSE st.found ]
         IN  IF r.value /\ Len(seen.found) >= max_versions
             THEN seen
             ELSE ScanClient(seen, n, avail, i - 1, ss, max_versions, outcome)

\* the numbers of results asked for
MaxResults == 2

\* find_python_compatible_versions of the client: the versions come from
\* get_available_versions, each answer from check_python_compatibility; the
\* document fetched for the versions is still fresh when the answers are asked for
FindPythonCompatibleVersions(n, ss, max_versions) ==
    \E outcome \in FetchOutcomes(n) :
        /\ Lookups < MaxLookups
        /\ LET r0 == get_package_info(cache, stats, n, outcome)
               avail == IF r0.value = NoInfo THEN <<>> ELSE get_available_versions(r0.value)
               r == ScanClient([ cache |-> r0.cache, stats |-> r0.stats, compat |-> compat,
                                 found |-> <<>> ],
                               n, avail, Len(avail), ss, max_versions, outcome)
           IN  /\ cache' = r.cache
               /\ stats' = r.stats
               /\ compat' = r.compat
               /\ last' = [CallRecord("find_python_compatible_versions", IndexKey(n), n, r0)
                              EXCEPT !.value = [ name |-> n, ss |-> ss,
                                                 max_versions |-> max_versions,
                                                 available |-> avail,
                                                 versions |-> Reverse(r.found) ]]
        /\ UNCHANGED << runVars, p_in, p_out, resolved_versions, callVars, now, exit_status,
                        selectVars, concVars >>

\* clear_cache of the client: the three dicts are emptied
ClearCache ==
    /\ cache' = <<>>
    /\ compat' = <<>>
    /\ last' = [NoCall EXCEPT !.op = "clear_cache"]
    /\ UNCHANGED << runVars, p_in, p_out, resolved_versions, callVars, now, stats,
                    exit_status, selectVars, concVars >>

\* time passes between two calls
Tick ==
    /\ now < MaxNow
    /\ now' = now + 1
    /\ UNCHANGED << runVars, p_in, p_out, resolved_versions, callVars, cache, stats, last,
                    compat, exit_status, selectVars, concVars >>

\* find_optimal_version called on its own
FindOptimalVersion ==
    /\ q_in # NoQuery
    /\ q_out = -1
    /\ q_out' = find_optimal_version(q_in.name, q_in.ss, q_in.prefer_stable)
    /\ UNCHANGED << runVars, p_in, p_out, resolved_versions, callVars, clientVars,
                    exit_status, q_in, concVars >>

(* ------------------------------------------------------------------ *)
(* One client shared by the threads of a pool: get_package_info and     *)
(* clear_cache, statement by statement                                  *)
(* ------------------------------------------------------------------ *)
\* _is_cache_valid on the maps of the shared client
Valid(key) == key \in DOMAIN stamps /\ now - stamps[key] < CacheTtl

MapPut(m, key, x) == [k \in DOMAIN m \cup {key} |-> IF k = key THEN x ELSE m[k]]

\* what a step of a thread leaves alone
ThreadFrame ==
    UNCHANGED << runVars, p_in, p_out, resolved_versions, callVars, now, cache, last,
                 compat, exit_status, selectVars, clear_pc, batch >>

\* a thread enters get_package_info: the validity test, the counters, and
\* for a miss the request sent
StartRead(w, n) ==
    /\ workers[w].pos = "idle"
    /\ Lookups < MaxLookups
    /\ IF Valid(IndexKey(n))
       THEN /\ stats' = Count(stats, "cache_hits")
            /\ workers' = [workers EXCEPT ![w] = [pos |-> "valid", name |-> n, seen |-> ""]]
       ELSE /\ stats' = Count(Count(stats, "cache_misses"), "api_calls")
            /\ workers' = [workers EXCEPT ![w] = [pos |-> "fetching", name |-> n, seen |-> ""]]
    /\ UNCHANGED << info, stamps >>
    /\ ThreadFrame

\* return self._package_info_cache[cache_key]
ReadCached(w) ==
    /\ workers[w].pos = "valid"
    /\ workers' = [workers EXCEPT ![w].pos = "idle",
                                  ![w].seen = IF IndexKey(workers[w].name) \in DOMAIN info
                                              THEN "hit" ELSE "KeyError"]
    /\ UNCHANGED << info, stamps, stats >>
    /\ ThreadFrame

\* the response arrives: a document is stored with its timestamp
Respond(w) ==
    /\ workers[w].pos = "fetching"
    /\ \E outcome \in FetchOutcomes(workers[w].name) :
          IF outcome = "ok"
          THEN /\ info' = MapPut(info, IndexKey(workers[w].name), workers[w].name)
               /\ stamps' = MapPut(stamps, IndexKey(workers[w].name), now)
               /\ workers' = [workers EXCEPT ![w].pos = "idle", ![w].seen = "fetched"]
          ELSE /\ workers' = [workers EXCEPT ![w].pos = "idle", ![w].seen = "failed"]
               /\ UNCHANGED << info, stamps >>
    /\ UNCHANGED stats
    /\ ThreadFrame

\* what a statement of clear_cache leaves alone
ClearFrame ==
    UNCHANGED << runVars, p_in, p_out, resolved_versions, callVars, now, cache, last,
                 stats, exit_status, selectVars, workers, batch >>

\* self._package_info_cache.clear()
ClearInfo ==
    /\ clear_pc = 0
    /\ info' = <<>>
    /\ clear_pc' = 1
    /\ UNCHANGED << stamps, compat >>
    /\ ClearFrame

\* self._cache_timestamps.clear()
ClearStamps ==
    /\ clear_pc = 1
    /\ stamps' = <<>>
    /\ clear_pc' = 2
    /\ UNCHANGED << info, compat >>
    /\ ClearFrame

\* self._compatibility_cache.clear()
ClearCompat ==
    /\ clear_pc = 2
    /\ compat' = <<>>
    /\ clear_pc' = 0
    /\ UNCHANGED << info, stamps >>
    /\ ClearFrame

\* the caches after the client has answered find_python_compatible_versions
\* for "a" at time 0
Warmed ==
    LET avail == get_available_versions("a")
    IN  ScanClient([ cache |-> [k \in {IndexKey("a")} |-> [ts |-> 0, data |-> "a"]],
                     stats |-> NoStats, compat |-> <<>>, found |-> <<>> ],
                   "a", avail, Len(avail), NoSpecGiven, Len(avail) + 1, "ok")

(* ------------------------------------------------------------------ *)
(* The resolve command                                                  *)
(* ------------------------------------------------------------------ *)
\* the exception classes met by the command and their base classes
Bases ==
    [ Exit |-> "RuntimeError", RecursionError |-> "RuntimeError",
      RuntimeError |-> "Exception", InvalidSpecifier |-> "ValueError",
      ValueError |-> "Exception", Exception |-> "BaseException" ]

RECURSIVE IsSubclass(_, _)
IsSubclass(c, target) ==
    c = target \/ (c \in DOMAIN Bases /\ IsSubclass(Bases[c], target))

\* what leaves the try block of the command: the error of the run, or the
\* typer.Exit raised as its last statement
RaisedInTry ==
    IF pc = "raised" THEN [class |-> "InvalidSpecifier", exit_code |-> 1]
    ELSE [class |-> "Exit", exit_code |-> IF result.success THEN 0 ELSE 1]

\* except Exception: ... raise typer.Exit(1); what the clause does not catch
\* leaves with its own code
StatusAfterExcept(exc) ==
    IF IsSubclass(exc.class, "Exception") THEN 1 ELSE exc.exit_code

ResolveCommand ==
    /\ pc \in {"returned", "raised"}
    /\ exit_status = -1
    /\ exit_status' = StatusAfterExcept(RaisedInTry)
    /\ UNCHANGED << runVars, p_in, p_out, resolved_versions, callVars, clientVars,
                    selectVars, concVars >>

\* specification strings the parser does not accept: an operator without a
\* version ("a=="), and a requirement with two clauses ("b>=1,<2")
MalformedStrings ==
    { << NameTok("a"), OpTok("==") >>, Str6("b", ">=", 1, "<", 2) }

\* the registries whose packages all suit the runtime; a package can list a
\* two-clause requirement on the other package
RegistriesTwoClause ==
    { [r EXCEPT !.requires_dist = rd] :
      r \in { q \in Registries : q.incompatible = {} /\ q.requires_dist = [n \in Names |-> <<>>] },
      rd \in { f \in [Names -> UNION { RequiresDistOf(n) \cup {<< Str6(Other(n), ">=", 1, "<", 2) >>}
                                         : n \in Names }] :
                  \A n \in Names :
                      f[n] \in RequiresDistOf(n) \cup {<< Str6(Other(n), ">=", 1, "<", 2) >>} } }

(* ------------------------------------------------------------------ *)
(* Specifications                                                       *)
(* ------------------------------------------------------------------ *)
Expand ==
    \/ \E t \in DOMAIN tasks : Enter(t)
    \/ \E t \in DOMAIN tasks : Select(t)
    \/ \E t \in DOMAIN tasks : Loop(t)
    \/ \E t \in DOMAIN tasks : Collect(t)

Next == Begin \/ Expand \/ Finish

Spec == Init /\ [][Next]_vars

NextHandling == Begin \/ Expand \/ FinishDetected

SpecHandling == Init /\ [][NextHandling]_vars

InitParse ==
    /\ mode = "seq"
    /\ package_specs = <<>>
    /\ registry \in Registries
    /\ registry.releases = [n \in Names |-> {}]
    /\ registry.incompatible = {}
    /\ registry.requires_dist = [n \in Names |-> <<>>]
    /\ Idle
    /\ p_in \in ParseInputs
    /\ p_out = NoSpec
    /\ q_in = NoQuery
    /\ q_out = -1

SpecParse == InitParse /\ [][ParseCall]_vars

\* the registries of the client on its own: "a" is known with all its
\* versions or not at all, "b" is not known; the newest version of "a" can
\* exclude the runtime, the oldest can declare nothing or an unparsable text
RegistriesClient ==
    { [r EXCEPT !.undeclared = k[1], !.unparsable = k[2]] :
      r \in { q \in Registries :
                 /\ q.releases["a"] \in {{}, Versions}
                 /\ q.releases["b"] = {}
                 /\ q.requires_dist["b"] = <<>>
                 /\ q.incompatible \subseteq { <<n, MaxVer>> : n \in Names } },
      k \in { << {}, {} >>, << { <<"a", 1>> }, {} >>, << {}, { <<"a", 1>> } >> } }

\* a client on its own, nothing cached
InitClient ==
    /\ mode = "seq"
    /\ package_specs = <<>>
    /\ registry \in RegistriesClient
    /\ Idle
    /\ p_in = <<>>
    /\ p_out = NoSpec
    /\ q_in = NoQuery
    /\ q_out = -1

NextClient ==
    \/ \E n \in Names : GetPackageInfo(n)
    \/ \E n \in Names, v \in Versions : GetPackageMetadata(n, v)
    \/ \E n \in Names : GetAvailableVersions(n)
    \/ \E n \in Names, v \in Versions : GetDependencies(n, v)
    \/ \E n \in Names, v \in Versions : CheckPythonCompatibility(n, v)
    \/ Tick

SpecClient == InitClient /\ [][NextClient]_vars

\* the specifier sets given to find_optimal_version: no spec, no clause, one clause
QuerySets == { NoSpecGiven, {} } \cup { { Clause(o, v) } : o \in Ops, v \in Versions }

SelectQueries ==
    { [name |-> "a", ss |-> ss, prefer_stable |-> ps] : ss \in QuerySets, ps \in BOOLEAN }

\* find_optimal_version on its own, for a package with releases, some of
\* them pre-releases
InitSelect ==
    /\ mode = "seq"
    /\ package_specs = <<>>
    /\ registry \in RegistriesPre
    /\ registry.requires_dist = [n \in Names |-> <<>>]
    /\ registry.releases["b"] = Versions
    /\ Idle
    /\ p_in = <<>>
    /\ p_out = NoSpec
    /\ q_in \in SelectQueries
    /\ q_out = -1

SpecSelect ==
    /\ InitSelect
    /\ [][FindOptimalVersion]_vars

\* the specifier sets given to find_python_compatible_versions: no spec, and
\* one clause that is a pin, a lower bound or an upper bound
ScanSets == { NoSpecGiven } \cup { { Clause(o, v) } : o \in {"==", ">=", "<"}, v \in Versions }

\* the client asked for compatible versions, between calls of
\* check_python_compatibility
NextScan ==
    \/ \E n \in Names, v \in Versions : CheckPythonCompatibility(n, v)
    \/ \E n \in Names, ss \in ScanSets, m \in 1..MaxResults :
          FindPythonCompatibleVersions(n, ss, m)

\* a client with nothing cached, for a registry that knows "a"
InitScan ==
    /\ InitClient
    /\ registry.releases["a"] = Versions

SpecScan == InitScan /\ [][NextScan]_vars

\* the registries of the shared client: "a" is known, "b" is not, every
\* declared requires_python can be parsed
RegistriesShared ==
    { r \in RegistriesClient :
         r.releases["a"] = Versions /\ r.undeclared = {} /\ r.unparsable = {} }

\* a client shared by the threads of a pool, new or after it has answered a
\* query for "a"; no thread is inside get_package_info, clear_cache is not running
InitShared ==
    /\ mode = "seq"
    /\ package_specs = <<>>
    /\ registry \in RegistriesShared
    /\ pc = "start"
    /\ specs = <<>>
    /\ package_constraints = <<>>
    /\ heap = <<>>
    /\ resolved_packages = <<>>
    /\ tasks = <<>>
    /\ conflicts = <<>>
    /\ resolved_versions = <<>>
    /\ run = 1
    /\ prev = NoPrev
    /\ optimized = NoResult
    /\ now = 0
    /\ cache = <<>>
    /\ stats = NoStats
    /\ last = NoCall
    /\ exit_status = -1
    /\ expanded = <<>>
    /\ result = NoResult
    /\ p_in = <<>>
    /\ p_out = NoSpec
    /\ q_in = NoQuery
    /\ q_out = -1
    /\ clear_pc = 0
    /\ workers = [w \in Workers |-> IdleWorker]
    /\ batch = NoBatch
    /\ \E warm \in BOOLEAN :
          IF warm
          THEN /\ info = [k \in DOMAIN Warmed.cache |-> Warmed.cache[k].data]
               /\ stamps = [k \in DOMAIN Warmed.cache |-> Warmed.cache[k].ts]
               /\ compat = Warmed.compat
          ELSE /\ info = <<>>
               /\ stamps = <<>>
               /\ compat = <<>>

NextShared ==
    \/ \E w \in Workers, n \in Names : StartRead(w, n)
    \/ \E w \in Workers : ReadCached(w)
    \/ \E w \in Workers : Respond(w)
    \/ ClearInfo
    \/ ClearStamps
    \/ ClearCompat
    \/ Tick

SpecShared == InitShared /\ [][NextShared]_vars

\* the dependency specifications _parse_dependency_string hands to the worker
DepSpecs ==
    { parse_dependency_string(<< NameTok(n), [k |-> "marker", s |-> "(>=1)", n |-> 0] >>).spec :
        n \in Names }

\* _resolve_dependency_worker called for one dependency on a resolver whose
\* maps are empty
InitDep ==
    /\ mode = "dep"
    /\ package_specs = <<>>
    /\ registry \in Registries
    /\ pc = "expand"
    /\ \E sp \in DepSpecs :
          /\ specs = << sp >>
          /\ tasks = << [st |-> "running", stack |-> << Frame(sp) >>, ret |-> 0] >>
    /\ package_constraints = <<>>
    /\ heap = <<>>
    /\ resolved_packages = <<>>
    /\ conflicts = <<>>
    /\ resolved_versions = <<>>
    /\ run = 1
    /\ prev = NoPrev
    /\ optimized = NoResult
    /\ now = 0
    /\ cache = <<>>
    /\ stats = NoStats
    /\ last = NoCall
    /\ exit_status = -1
    /\ compat = <<>>
    /\ info = <<>>
    /\ stamps = <<>>
    /\ clear_pc = 0
    /\ workers = [w \in Workers |-> IdleWorker]
    /\ batch = NoBatch
    /\ expanded = <<>>
    /\ result = NoResult
    /\ p_in = <<>>
    /\ p_out = NoSpec
    /\ q_in = NoQuery
    /\ q_out = -1

NextDep ==
    \/ \E t \in DOMAIN tasks : DepEnter(t)
    \/ \E t \in DOMAIN tasks : DepSelect(t)
    \/ \E t \in DOMAIN tasks : DepLoop(t)

SpecDep == InitDep /\ [][NextDep]_vars

\* registries with pre-releases in which "a" lists "b" and one release of
\* "a" can be without a requires_dist entry
RegistriesOrder ==
    { [r EXCEPT !.depless = dl] :
      r \in { q \in RegistriesPre :
                 /\ q.requires_dist["b"] = <<>>
                 /\ q.requires_dist["a"] # <<>> },
      dl \in { {} } \cup { { <<"a", v>> } : v \in Versions } }

\* the sequential resolver run on a list of two specifications and then on
\* the list in another order
InitOrder ==
    /\ mode = "seq"
    /\ package_specs \in [1..MaxSpecs -> RunSpecStrings]
    /\ registry \in RegistriesOrder
    /\ Idle
    /\ p_in = <<>>
    /\ p_out = NoSpec
    /\ q_in = NoQuery
    /\ q_out = -1

NextOrder ==
    \/ Begin
    \/ \E t \in DOMAIN tasks : Enter(t)
    \/ \E t \in DOMAIN tasks : Select(t)
    \/ \E t \in DOMAIN tasks : Loop(t)
    \/ FinishDefault
    \/ AgainPermuted

SpecOrder == InitOrder /\ [][NextOrder]_vars

\* the resolve command with the sequential resolver; the list can hold
\* strings the parser does not accept
InitCommand ==
    /\ mode = "seq"
    /\ package_specs \in UNION { [1..k -> RunSpecStrings \cup MalformedStrings] : k \in 1..MaxSpecs }
    /\ registry \in RegistriesTwoClause
    /\ Idle
    /\ p_in = <<>>
    /\ p_out = NoSpec
    /\ q_in = NoQuery
    /\ q_out = -1

NextCommand ==
    \/ Begin
    \/ \E t \in DOMAIN tasks : Enter(t)
    \/ \E t \in DOMAIN tasks : Select(t)
    \/ \E t \in DOMAIN tasks : Loop(t)
    \/ Finish
    \/ ResolveCommand

SpecCommand == InitCommand /\ [][NextCommand]_vars

\* the parallel path is taken for more than this many specifications
ParallelThreshold == 3

\* the lists that pin each name twice
FourPins == { p \o q : p \in PinPairs("a"), q \in PinPairs("b") }

\* two calls of resolve_dependencies with one list long enough for the
\* parallel path, against a registry that has pre-releases
InitTwice ==
    /\ mode \in {"seq", "par"}
    /\ package_specs \in FourPins
    /\ Len(package_specs) > ParallelThreshold
    /\ registry \in RegistriesPre
    /\ Idle
    /\ p_in = <<>>
    /\ p_out = NoSpec
    /\ q_in = NoQuery
    /\ q_out = -1

NextTwice ==
    \/ Begin
    \/ \E t \in DOMAIN tasks : Enter(t)
    \/ \E t \in DOMAIN tasks : Select(t)
    \/ \E t \in DOMAIN tasks : ParTop(t)
    \/ \E t \in DOMAIN tasks : Loop(t)
    \/ FinishDefault
    \/ Again

SpecTwice == InitTwice /\ [][NextTwice]_vars

\* the available versions of a name that the target runtime accepts
CompatibleSet(n) == { v \in Releases(n) : <<n, v>> \notin registry.incompatible }

\* every package of the registry depends on the other one
Cyclic ==
    \A n \in Names :
        registry.requires_dist[n]
           = << << NameTok(Other(n)), [k |-> "marker", s |-> "(>=1)", n |-> 0] >> >>

\* one pin of "a" is requested; the runtime accepts a release of "a" at or
\* above the pin and a release of "b"
InitCycle ==
    /\ Init
    /\ Cyclic
    /\ \E v \in Versions :
          /\ package_specs = << Str3("a", "==", v) >>
          /\ \E w \in CompatibleSet("a") : w >= v
    /\ CompatibleSet("b") # {}

\* the interpreter and the pool's threads keep running while a step is enabled
SpecCycle == InitCycle /\ [][Next]_vars /\ WF_vars(Next)

(* ------------------------------------------------------------------ *)
(* detect_conflicts called on its own                                   *)
(* ------------------------------------------------------------------ *)
\* what a call of one method of the resolver or of the client leaves at
\* its initial value
Untouched ==
    /\ resolved_versions = <<>>
    /\ run = 1
    /\ prev = NoPrev
    /\ optimized = NoResult
    /\ now = 0
    /\ cache = <<>>
    /\ stats = NoStats
    /\ last = NoCall
    /\ exit_status = -1
    /\ compat = <<>>
    /\ info = <<>>
    /\ stamps = <<>>
    /\ clear_pc = 0
    /\ workers = [w \in Workers |-> IdleWorker]
    /\ expanded = <<>>
    /\ result = NoResult
    /\ p_in = <<>>
    /\ p_out = NoSpec
    /\ q_in = NoQuery
    /\ q_out = -1

\* the keys of the resolved_packages dict handed to the method, in the
\* order of insertion
DetectNames == << "a", "b", "c", "d" >>

\* the dependency lists of the packages handed to the method
DetectDependencies == { <<>>, << "a" >>, << "b", "a" >> }

\* the lists of constraints recorded for one name: SpecifierSet("") has no
\* clause
DetectConstraints ==
    LET sets == { {}, { Clause(">=", 1) } }
    IN  { << x >> : x \in sets } \cup { << x, y >> : x \in sets, y \in sets }

\* resolved_packages and package_constraints as a caller hands them over
InitDetect ==
    /\ mode = "seq"
    /\ package_specs = <<>>
    /\ registry \in { r \in Registries :
                        /\ \A n \in Names : r.releases[n] = Versions
                        /\ r.incompatible = {}
                        /\ \A n \in Names : r.requires_dist[n] = <<>> }
    /\ pc = "start"
    /\ specs = <<>>
    /\ tasks = <<>>
    /\ conflicts = <<>>
    /\ \E present \in SUBSET { DetectNames[i] : i \in DOMAIN DetectNames },
          deps \in [{ DetectNames[i] : i \in DOMAIN DetectNames } -> DetectDependencies] :
          LET keys == SelectSeq(DetectNames, LAMBDA n : n \in present)
          IN  /\ heap = [i \in DOMAIN keys |->
                            [ResolvedPackage(keys[i], 1) EXCEPT !.dependencies = deps[keys[i]]]]
              /\ resolved_packages = [i \in DOMAIN keys |-> [key |-> keys[i], val |-> i]]
    /\ \E ca \in DetectConstraints :
          \/ package_constraints = << [key |-> "a", val |-> ca] >>
          \/ \E cb \in DetectConstraints :
                package_constraints = << [key |-> "a", val |-> ca], [key |-> "b", val |-> cb] >>
    /\ Untouched
    /\ batch = NoBatch

DetectConflicts ==
    /\ pc = "start"
    /\ conflicts' = detect_conflicts(resolved_packages, package_constraints, heap)
    /\ pc' = "returned"
    /\ UNCHANGED << mode, package_specs, registry, specs, package_constraints, heap,
                    resolved_packages, tasks, expanded, result, p_in, p_out,
                    resolved_versions, auxVars >>

NextDetect == DetectConflicts

SpecDetect == InitDetect /\ [][NextDetect]_vars

(* ------------------------------------------------------------------ *)
(* A release list with a key that is not a version                      *)
(* ------------------------------------------------------------------ *)
\* registries in which every release suits the runtime and the release
\* list of some packages holds a key that packaging does not parse
RegistriesMalformed ==
    { [r EXCEPT !.malformed = m] :
      r \in { q \in Registries : q.incompatible = {} },
      m \in SUBSET Names }

InitMalformed ==
    /\ mode \in {"seq", "pool"}
    /\ package_specs \in UNION { [1..k -> RunSpecStrings] : k \in 1..MaxSpecs }
    /\ registry \in RegistriesMalformed
    /\ Idle
    /\ p_in = <<>>
    /\ p_out = NoSpec
    /\ q_in = NoQuery
    /\ q_out = -1

\* get_available_versions is called on the client before the run
AskVersions ==
    /\ pc = "start"
    /\ Lookups = 0
    /\ \E n \in Names : GetAvailableVersions(n)

NextMalformed ==
    \/ AskVersions
    \/ Begin
    \/ \E t \in DOMAIN tasks : Enter(t)
    \/ \E t \in DOMAIN tasks : Select(t)
    \/ \E t \in DOMAIN tasks : Loop(t)
    \/ \E t \in DOMAIN tasks : Collect(t)
    \/ FinishDefault

SpecMalformed == InitMalformed /\ [][NextMalformed]_vars

(* ------------------------------------------------------------------ *)
(* resolve_packages_parallel of the shared client: the batch pre-fetch  *)
(* and the thread pool                                                  *)
(* ------------------------------------------------------------------ *)
\* number of specifications handed to resolve_packages_parallel: the
\* resolver takes the parallel path for more than ParallelThreshold of them
BatchLen == 4

\* what a step of the batch leaves alone
BatchFrame ==
    UNCHANGED << runVars, p_in, p_out, resolved_versions, callVars, now, cache, last,
                 compat, exit_status, selectVars, clear_pc >>

\* the call has built one coroutine per package name and handed them all
\* to asyncio.gather; the pool has NumWorkers threads (max_workers)
InitBatch ==
    /\ mode = "par"
    /\ package_specs = <<>>
    /\ registry \in { r \in RegistriesShared : r.incompatible = {} }
    /\ pc = "start"
    /\ specs = <<>>
    /\ package_constraints = <<>>
    /\ heap = <<>>
    /\ resolved_packages = <<>>
    /\ tasks = <<>>
    /\ conflicts = <<>>
    /\ Untouched
    /\ \E names \in [1..BatchLen -> Names] :
          batch = [ phase |-> "prefetch", names |-> names,
                    coros |-> [i \in 1..BatchLen |-> "created"], next |-> 1 ]

\* a coroutine of the batch runs up to its first await: the validity test,
\* the counters, and for a miss the request sent through the session
CoroStart(i) ==
    /\ batch.phase = "prefetch"
    /\ batch.coros[i] = "created"
    /\ IF Valid(IndexKey(batch.names[i]))
       THEN /\ stats' = Count(stats, "cache_hits")
            /\ batch' = [batch EXCEPT !.coros[i] = "done"]
       ELSE /\ stats' = Count(Count(stats, "cache_misses"), "api_calls")
            /\ batch' = [batch EXCEPT !.coros[i] = "fetching"]
    /\ UNCHANGED << info, stamps, workers >>
    /\ BatchFrame

\* the response of a coroutine's request arrives
CoroRespond(i) ==
    /\ batch.phase = "prefetch"
    /\ batch.coros[i] = "fetching"
    /\ \E outcome \in FetchOutcomes(batch.names[i]) :
          IF outcome = "ok"
          THEN /\ info' = MapPut(info, IndexKey(batch.names[i]), batch.names[i])
               /\ stamps' = MapPut(stamps, IndexKey(batch.names[i]), now)
          ELSE UNCHANGED << info, stamps >>
    /\ batch' = [batch EXCEPT !.coros[i] = "done"]
    /\ UNCHANGED << stats, workers >>
    /\ BatchFrame

\* gather has every result: the executor is created and the
\* specifications are submitted
GatherDone ==
    /\ batch.phase = "prefetch"
    /\ \A i \in DOMAIN batch.coros : batch.coros[i] = "done"
    /\ batch' = [batch EXCEPT !.phase = "pool"]
    /\ UNCHANGED << info, stamps, stats, workers >>
    /\ BatchFrame

\* a free thread of the executor takes the next specification:
\* _resolve_single_package enters get_package_info
PoolTake(w) ==
    /\ batch.phase = "pool"
    /\ batch.next <= Len(batch.names)
    /\ workers[w].pos = "idle"
    /\ LET n == batch.names[batch.next]
       IN  IF Valid(IndexKey(n))
           THEN /\ stats' = Count(stats, "cache_hits")
                /\ workers' = [workers EXCEPT ![w] = [pos |-> "valid", name |-> n, seen |-> ""]]
           ELSE /\ stats' = Count(Count(stats, "cache_misses"), "api_calls")
                /\ workers' = [workers EXCEPT ![w] = [pos |-> "fetching", name |-> n, seen |-> ""]]
    /\ batch' = [batch EXCEPT !.next = @ + 1]
    /\ UNCHANGED << info, stamps >>
    /\ BatchFrame

\* the with block of the executor ends when every thread has returned
PoolDone ==
    /\ batch.phase = "pool"
    /\ batch.next > Len(batch.names)
    /\ \A w \in Workers : workers[w].pos = "idle"
    /\ batch' = [batch EXCEPT !.phase = "done"]
    /\ UNCHANGED << info, stamps, stats, workers >>
    /\ BatchFrame

NextBatch ==
    \/ \E i \in DOMAIN batch.coros : CoroStart(i)
    \/ \E i \in DOMAIN batch.coros : CoroRespond(i)
    \/ GatherDone
    \/ \E w \in Workers : PoolTake(w)
    \/ \E w \in Workers : ReadCached(w)
    \/ \E w \in Workers : Respond(w)
    \/ PoolDone
    \/ Tick

SpecBatch == InitBatch /\ [][NextBatch]_vars

(* ------------------------------------------------------------------ *)
(* optimize_versions                                                    *)
(* ------------------------------------------------------------------ *)
\* _is_version_improvement: a greater major or minor segment, or a micro
\* segment greater by more than five; the releases of a registry are
\* spelled "v.0" or, with patch, "1.0.v"
is_version_improvement(current, new) ==
    IF registry.patch THEN new > current + 5 ELSE new > current

\* _is_version_compatible of the pool resolver: every constraint recorded
\* for the name contains the version
is_version_compatible(n, v) ==
    ~DictHas(package_constraints, n)
        \/ \A i \in 1..Len(DictGet(package_constraints, n)) :
              Contains(DictGet(package_constraints, n)[i], v)

\* the version optimize_versions of OptimizedDependencyResolver gives a
\* package; environment is the argument given (TRUE) or left at None
BestVersion(package, environment) ==
    LET compatible == find_python_compatible_versions(package.name, NoSpecGiven, 3)
    IN  IF environment /\ compatible # <<>>
            /\ compatible[Len(compatible)] # package.version
            /\ is_version_improvement(package.version, compatible[Len(compatible)])
        THEN compatible[Len(compatible)]
        ELSE package.version

\* the version _optimize_package_worker gives a package: the newest
\* compatible version that the recorded constraints accept
BestVersionWorker(package, environment) ==
    LET compatible == find_python_compatible_versions(package.name, NoSpecGiven, 10)
        accepted == SelectSeq(compatible, LAMBDA v : is_version_compatible(package.name, v))
    IN  IF environment /\ accepted # <<>> THEN accepted[Len(accepted)]
        ELSE package.version

\* ResolvedPackage(name=..., version=best_version, dependencies=..., ...)
OptimizedPackage(package, best_version) ==
    [ name |-> package.name, version |-> best_version,
      dependencies |-> package.dependencies, conflicts |-> package.conflicts,
      is_direct |-> package.is_direct ]

\* optimize_versions of OptimizedDependencyResolver: the packages in the
\* order of the input, every other field copied
optimize_versions(r, environment) ==
    [ r EXCEPT !.packages =
        [i \in 1..Len(r.packages) |->
            OptimizedPackage(r.packages[i], BestVersion(r.packages[i], environment))] ]

\* optimize_versions of ParallelDependencyResolver: the packages in the
\* order f in which the futures completed; package_conflicts, resolutions
\* and conflict_resolution_strategy are not handed to the constructor and
\* take their defaults
optimize_versions_parallel(r, environment, f) ==
    [ packages |->
        [i \in 1..Len(r.packages) |->
            OptimizedPackage(r.packages[f[i]],
                             BestVersionWorker(r.packages[f[i]], environment))],
      conflicts |-> r.conflicts,
      package_conflicts |-> <<>>,
      resolutions |-> <<>>,
      success |-> r.success,
      dependency_tree |-> r.dependency_tree,
      conflict_resolution_strategy |-> NoResult.conflict_resolution_strategy ]

\* the result of resolve_dependencies is handed to optimize_versions of the
\* same resolver
OptimizeVersions ==
    /\ pc = "returned"
    /\ \E environment \in BOOLEAN :
          IF mode = "pool"
          THEN \E f \in Permutations(1..Len(result.packages)) :
                  optimized' = optimize_versions_parallel(result, environment, f)
          ELSE optimized' = optimize_versions(result, environment)
    /\ pc' = "optimized"
    /\ UNCHANGED << mode, package_specs, registry, specs, package_constraints, heap,
                    resolved_packages, tasks, conflicts, expanded, result, p_in, p_out,
                    resolved_versions, run, prev, clientVars, exit_status, selectVars,
                    concVars >>

\* the top-level strings of these runs: a pin, or the bare name
OptimizeSpecStrings == RunSpecStrings \cup { Str1(n) : n \in Names }

\* registries with pre-releases, spelled with a suffix, in which "b" has one
\* release and only "a" can have a dependency; the releases differ in the
\* major or in the micro segment
RegistriesOptimize ==
    { [r EXCEPT !.patch = p] :
      r \in { q \in RegistriesPre :
                 /\ q.suffixed = q.prerelease
                 /\ q.requires_dist["b"] = <<>>
                 /\ q.releases["b"] = 1..1 },
      p \in BOOLEAN }

InitOptimize ==
    /\ mode \in {"seq", "pool"}
    /\ package_specs \in UNION { [1..k -> OptimizeSpecStrings] : k \in 1..MaxSpecs }
    /\ registry \in RegistriesOptimize
    /\ Idle
    /\ p_in = <<>>
    /\ p_out = NoSpec
    /\ q_in = NoQuery
    /\ q_out = -1

NextOptimize ==
    \/ Begin
    \/ \E t \in DOMAIN tasks : Enter(t)
    \/ \E t \in DOMAIN tasks : Select(t)
    \/ \E t \in DOMAIN tasks : Loop(t)
    \/ \E t \in DOMAIN tasks : Collect(t)
    \/ Finish
    \/ OptimizeVersions

SpecOptimize == InitOptimize /\ [][NextOptimize]_vars

(* ------------------------------------------------------------------ *)
(* The compatibility cache of the client over time                      *)
(* ------------------------------------------------------------------ *)
\* check_python_compatibility, clear_cache and the clock on a client with
\* nothing cached
NextCompat ==
    \/ \E n \in Names, v \in Versions : CheckPythonCompatibility(n, v)
    \/ ClearCache
    \/ Tick

SpecCompat == InitClient /\ [][NextCompat]_vars

(* ------------------------------------------------------------------ *)
(* The pool resolver's workers racing for the same names                *)
(* ------------------------------------------------------------------ *)
\* resolve_dependencies of the pool resolver on lists of pins and bare
\* names, the registry's packages depending on each other or not
InitRace ==
    /\ mode = "pool"
    /\ package_specs \in UNION { [1..k -> OptimizeSpecStrings] : k \in 1..MaxSpecs }
    /\ registry \in Registries
    /\ Idle
    /\ p_in = <<>>
    /\ p_out = NoSpec
    /\ q_in = NoQuery
    /\ q_out = -1

NextRace ==
    \/ Begin
    \/ \E t \in DOMAIN tasks : Enter(t)
    \/ \E t \in DOMAIN tasks : Select(t)
    \/ \E t \in DOMAIN tasks : Loop(t)
    \/ \E t \in DOMAIN tasks : Collect(t)
    \/ FinishDefault

SpecRace == InitRace /\ [][NextRace]_vars

(* ------------------------------------------------------------------ *)
(* Properties                                                           *)
(* ------------------------------------------------------------------ *)
\* the versions a containment question is asked about
Probe == 0..(MaxVer + 1)

Returned == pc = "returned"

\* C2: for each of the seven operators, the specifier set parsed from
\* name+op+version contains exactly the versions that (op, version) admits,
\* and the comma-joined form name+op1+v1,op2+v2 parses to the conjunction of
\* its two clauses
C2_ParsePreservesOperator ==
    p_out # NoSpec =>
        /\ \A n \in ParseNames, o \in Ops, v \in Versions :
              p_in = Str3(n, o, v) =>
                 /\ p_out.ok
                 /\ \A w \in Probe :
                       Contains(p_out.specifier_set, w) <=> ClauseContains(Clause(o, v), w)
        /\ \A n \in Names, o1 \in Ops, v1 \in Versions, o2 \in Ops, v2 \in Versions :
              p_in = Str6(n, o1, v1, o2, v2) =>
                 /\ p_out.ok
                 /\ \A w \in Probe :
                       Contains(p_out.specifier_set, w)
                          <=> (ClauseContains(Clause(o1, v1), w)
                               /\ ClauseContains(Clause(o2, v2), w))

\* the conflicts reported for a name
ConflictsFor(n) == { i \in 1..Len(conflicts) : conflicts[i].package_name = n }

\* C3: a run given exactly two pins of one name to two different versions
\* returns exactly one conflict for that name, and it is auto-resolvable
C3_TwoPinsOneConflict ==
    Returned =>
        \A n \in Names, v \in Versions, w \in Versions :
            (v # w /\ package_specs = << Str3(n, "==", v), Str3(n, "==", w) >>) =>
                /\ Cardinality(ConflictsFor(n)) = 1
                /\ \A i \in ConflictsFor(n) : conflicts[i].auto_resolvable

\* some available version of the name lies in every recorded constraint
Satisfiable(n) ==
    \E v \in Releases(n) :
        \A j \in 1..Len(DictGet(package_constraints, n)) :
            Contains(DictGet(package_constraints, n)[j], v)

\* C4: for every name with more than one recorded constraint, a conflict is
\* reported exactly when no available version satisfies all of its constraints
\* (stated for the names the registry has releases of)
C4_ConflictIffUnsatisfiable ==
    Returned =>
        \A n \in DictKeys(package_constraints) :
            (Len(DictGet(package_constraints, n)) > 1 /\ Releases(n) # {}) =>
                (ConflictsFor(n) # {} <=> ~Satisfiable(n))

\* the strategy the returned result was computed under
Used == result.conflict_resolution_strategy

\* the positions of the returned packages that carry a name
PackagesNamed(n) == { i \in 1..Len(result.packages) : result.packages[i].name = n }

\* the resolution records for a name
ResolutionsFor(n) == { j \in 1..Len(result.resolutions) : result.resolutions[j].package_name = n }

\* C1: a completed run returns exactly one package for each package name it
\* created a package for, and no package for any other name
C1_OnePackagePerName ==
    Returned =>
        \A n \in Names :
            Cardinality(PackagesNamed(n))
               = (IF \E i \in 1..Len(heap) : heap[i].name = n THEN 1 ELSE 0)

\* C1 witness: two workers each created a package for one name, both names
\* were resolved, and the run returned
C1_Witness ==
    /\ Returned
    /\ Len(result.packages) = Cardinality(Names)
    /\ Len(heap) > Cardinality(Names)

C7_IgnoreManualLeaveAsIs ==
    (Returned /\ Used.strategy \in {"ignore", "manual"}) =>
        /\ result.packages = expanded
        /\ Len(result.packages) = Len(resolved_packages)
        /\ result.resolutions = <<>>
        /\ result.package_conflicts = conflicts
        /\ result.success <=> (conflicts = <<>>)

\* C7 witness: a run under "manual" returned packages together with a
\* detected conflict on a package that has other releases to move to
C7_Witness ==
    /\ Returned
    /\ Used.strategy = "manual"
    /\ \E i \in 1..Len(conflicts) :
          /\ DictHas(resolved_packages, conflicts[i].package_name)
          /\ Cardinality(Releases(conflicts[i].package_name)) > 1

\* those of them that lie in every constraint recorded for the name
SatisfyingSet(n) ==
    { v \in CompatibleSet(n) :
        \A k \in 1..Len(DictGet(package_constraints, n)) :
            Contains(DictGet(package_constraints, n)[k], v) }

\* the best-ranked version of a set: the highest or the lowest
BestOf(S, prefer_latest) ==
    IF prefer_latest THEN CHOOSE v \in S : \A w \in S : w <= v
    ELSE CHOOSE v \in S : \A w \in S : v <= w

CycleRequest ==
    /\ Cyclic
    /\ \E v \in Versions :
          /\ package_specs = << Str3("a", "==", v) >>
          /\ \E w \in CompatibleSet("a") : w >= v
    /\ CompatibleSet("b") # {}

OneEach == \A n \in Names : Cardinality(PackagesNamed(n)) = 1

\* C10: on a registry where a depends on b and b on a, a request for a
\* always comes to its return, with exactly one package for a and one for b
C10_CycleTerminates == (pc = "start" /\ CycleRequest) ~> (Returned /\ OneEach)

\* C10 witness: the request for a on the cyclic registry has returned with
\* one package for each of the two names, a listing b as its dependency
C10_Witness ==
    /\ Returned
    /\ CycleRequest
    /\ OneEach
    /\ \E i \in PackagesNamed("a") : result.packages[i].dependencies = << "b" >>

(* ------------------------------------------------------------------ *)
(* Two calls: sequential against parallel, first against second         *)
(* ------------------------------------------------------------------ *)
VersionsOf(pkgs) == { << pkgs[i].name, pkgs[i].version >> : i \in 1..Len(pkgs) }

EntriesOf(pkgs) ==
    { << pkgs[i].name, pkgs[i].version, pkgs[i].dependencies >> : i \in 1..Len(pkgs) }

SecondReturned == pc = "returned" /\ run = 2

\* C11: for one registry and one specification list, the sequential and the
\* parallel strategy of resolve_dependencies return the same names, each with
\* the same version
C11_StrategiesAgree ==
    (SecondReturned /\ prev.mode # mode)
        => VersionsOf(prev.packages) = VersionsOf(result.packages)

\* C12: a second call with the same list on the same resolver, the registry
\* unchanged, returns the same set of (name, version, dependencies)
C12_SecondCallSame ==
    (SecondReturned /\ prev.mode = mode)
        => EntriesOf(prev.packages) = EntriesOf(result.packages)

(* ------------------------------------------------------------------ *)
(* The client's cache                                                   *)
(* ------------------------------------------------------------------ *)
IsRead == last.op \in {"get_package_info", "get_package_metadata"}

\* the entry of the key read existed and was younger than the ttl
EntryFresh == last.present /\ last.age < CacheTtl

\* the same for the release index of the package read
IndexFresh == last.index_present /\ last.index_age < CacheTtl

ReadMethods ==
    {"get_package_info", "get_package_metadata", "get_available_versions", "get_dependencies"}

\* the value a method hands back when the registry could not be read
EmptyValue ==
    CASE last.op = "get_package_info" -> last.value = NoInfo
      [] last.op = "get_package_metadata" -> last.value = NoMetadata
      [] last.op = "get_available_versions" -> last.value = <<>>
      [] last.op = "get_dependencies" -> last.value = <<>>

Resolvable(i) ==
    LET sp == parse_package_spec(package_specs[i])
    IN  sp.ok /\ find_optimal_version(sp.name, sp.specifier_set, TRUE) # 0

\* C16: a malformed specification string, at the top level or among the
\* dependency strings of a package, is skipped: resolve_dependencies does not
\* raise, and every other specification is resolved
C16_MalformedSkipped ==
    /\ pc # "raised"
    /\ pc = "returned" =>
          \A i \in 1..Len(package_specs) :
              Resolvable(i) =>
                  \E j \in 1..Len(result.packages) :
                      result.packages[j].name = parse_package_spec(package_specs[i]).name

\* C17: the resolve command exits with status 0 when the result has
\* success = true, and with status 1 otherwise, an error included
C17_ExitStatusFollowsSuccess ==
    exit_status # -1 => (exit_status = 0 <=> (pc = "returned" /\ result.success))

(* ------------------------------------------------------------------ *)
(* The direct flag                                                      *)
(* ------------------------------------------------------------------ *)
TopLevelNames == { specs[i].name : i \in 1..Len(specs) }

\* C18: a package of the result has direct = true exactly when its name was
\* given as a top-level specification
C18_DirectIffTopLevel ==
    pc = "returned" =>
        \A j \in 1..Len(result.packages) :
            result.packages[j].is_direct <=> result.packages[j].name \in TopLevelNames

(* ------------------------------------------------------------------ *)
(* Version selection and runtime compatibility                          *)
(* ------------------------------------------------------------------ *)
\* the releases that satisfy the constraint of the query and suit the runtime
QueryCandidates ==
    { v \in Releases(q_in.name) :
        /\ q_in.ss = NoSpecGiven \/ Contains(q_in.ss, v)
        /\ check_python_compatibility(q_in.name, v) }

StableCandidates == { v \in QueryCandidates : ~IsPrerelease(v) }

\* C19: with prefer_stable, find_optimal_version returns a pre-release only
\* when no stable version satisfies the constraint and suits the runtime;
\* otherwise it returns the newest stable one
C19_PreReleaseOnlyWithoutStable ==
    (q_out > 0 /\ q_in.prefer_stable) =>
        /\ IsPrerelease(q_out) => StableCandidates = {}
        /\ StableCandidates # {} =>
              (q_out \in StableCandidates /\ \A v \in StableCandidates : v <= q_out)

\* the release asked about declares no requires_python
DeclaresNothing ==
    \/ last.key[2] \notin Releases(last.key[1])
    \/ RequiresPythonOf(last.key[1], last.key[2]) = ""

\* C20: check_python_compatibility returns true exactly when the version
\* declares no runtime constraint or its constraint contains the target
C20_CompatibleIffDeclared ==
    last.op = "check_python_compatibility" =>
        (last.value <=>
            (DeclaresNothing \/ RequiresPythonOf(last.key[1], last.key[2]) = "contains"))

(* ------------------------------------------------------------------ *)
(* A package that cannot be fetched                                     *)
(* ------------------------------------------------------------------ *)
Fetchable(n) == Releases(n) # {}

\* a release satisfies the specification and suits the runtime
HasSatisfying(sp) ==
    \E v \in Releases(sp.name) :
        Contains(sp.specifier_set, v) /\ check_python_compatibility(sp.name, v)

ResultNames == { result.packages[j].name : j \in 1..Len(result.packages) }

Scanned == last.op = "find_python_compatible_versions" /\ ~last.failed

\* is_runtime_compatible as the specification defines it: the version
\* declares no constraint, or the declared constraint contains the target
RuntimeCompatible(n, v) == RequiresPythonOf(n, v) \in {"", "contains"}

\* the versions of the available list that qualify for the query of the last call
Qualifying ==
    LET q == last.value
    IN  { q.available[i] : i \in { j \in 1..Len(q.available) :
              /\ q.ss # NoSpecGiven => Contains(q.ss, q.available[j])
              /\ RuntimeCompatible(q.name, q.available[j]) } }

Ascending(q) == \A i \in 1..(Len(q) - 1) : q[i] < q[i + 1]

\* C21: find_python_compatible_versions returns, in ascending order, at most
\* max_versions versions, each satisfying the constraint (when one is given)
\* and runtime-compatible, and they are the newest such versions of the
\* capped available list: no qualifying version newer than a returned one,
\* and none at all while fewer than max_versions are returned, is left out
C21_NewestCompatibleAscending ==
    Scanned =>
        LET q == last.value
            got == { q.versions[i] : i \in 1..Len(q.versions) }
        IN  /\ Ascending(q.versions)
            /\ Len(q.versions) <= q.max_versions
            /\ got \subseteq Qualifying
            /\ \A w \in Qualifying \ got :
                  /\ Len(q.versions) = q.max_versions
                  /\ \A v \in got : w < v

\* the number of the three caches that hold no entry
EmptyCaches ==
    (IF DOMAIN info = {} THEN 1 ELSE 0) + (IF DOMAIN stamps = {} THEN 1 ELSE 0)
        + (IF DOMAIN compat = {} THEN 1 ELSE 0)

\* clear_cache has emptied a cache and another one still holds entries
HalfCleared == clear_pc # 0 /\ EmptyCaches < 3

\* thread w looks at the caches in this step: the validity test or the read
Observes(w) == workers[w].pos \in {"idle", "valid"} /\ workers'[w] # workers[w]

\* C22: clear_cache drops the package-info cache, the timestamp map and the
\* compatibility cache atomically: no thread looks at the caches while one
\* of them is already emptied and another still holds entries, so no read
\* finds a timestamp without its document
C22_ClearIsAtomic ==
    /\ [][HalfCleared => \A w \in Workers : ~Observes(w)]_vars
    /\ [](\A w \in Workers : workers[w].seen # "KeyError")

\* C23: concurrent requests for one cache key are deduplicated: while a
\* fetch for a package name is in flight, no second request for the same
\* name is sent
C23_OneFetchInFlightPerKey ==
    \A w1 \in Workers, w2 \in Workers :
        (w1 # w2 /\ workers[w1].pos = "fetching" /\ workers[w2].pos = "fetching")
            => workers[w1].name # workers[w2].name

(* ------------------------------------------------------------------ *)
(* Expansion: the shared map, the dependency edges, the constraints     *)
(* ------------------------------------------------------------------ *)
\* worker t has passed the membership test for its package and has not yet
\* stored the package it is about to create
BetweenTestAndInsert(t) == Running(t) /\ Top(t).ph = "select"

\* C24: in concurrent resolution no two workers fetch and insert the same
\* package name concurrently: while one worker is between its membership
\* test for a name and its insertion of that name, no other worker is
\* between the test and the insertion for the same name
C24_TestAndInsertExclusive ==
    mode = "pool" =>
        \A t1 \in DOMAIN tasks, t2 \in DOMAIN tasks :
            (t1 # t2 /\ BetweenTestAndInsert(t1) /\ BetweenTestAndInsert(t2))
                => Top(t1).spec.name # Top(t2).spec.name

\* the dependencies a package of the given name and version declares, as
\* the expansion routine parses them
DeclaredDeps(n, v) ==
    LET deps == DepsToWalk(n, v)
    IN  { parse_dependency_string(deps[k]) : k \in 1..Len(deps) }

ExpandedNames == { expanded[i].name : i \in 1..Len(expanded) }

Listed(pkg) == { pkg.dependencies[k] : k \in 1..Len(pkg.dependencies) }

\* C26: a declared dependency D of P that is resolved is named in P's
\* dependency list, whether P's expansion resolved it or met it already
\* resolved: the list names every dependency considered for expansion
C26_EdgeToResolvedDependency ==
    pc = "returned" =>
        \A i \in 1..Len(expanded) :
            \A d \in DeclaredDeps(expanded[i].name, expanded[i].version) :
                (~d.none /\ d.spec.ok /\ d.spec.name \in ExpandedNames)
                    => d.spec.name \in Listed(expanded[i])

\* the constraints recorded for a name
RecordedFor(n) ==
    IF DictHas(package_constraints, n)
    THEN { DictGet(package_constraints, n)[k] : k \in 1..Len(DictGet(package_constraints, n)) }
    ELSE {}

\* C27: the constraint of every declared dependency that was expanded is in
\* the constraints-by-name map when the run returns, next to those of the
\* top-level specifications
C27_DependencyConstraintsRecorded ==
    pc = "returned" =>
        /\ \A i \in 1..Len(specs) : specs[i].specifier_set \in RecordedFor(specs[i].name)
        /\ \A i \in 1..Len(expanded) :
              \A d \in DeclaredDeps(expanded[i].name, expanded[i].version) :
                  (~d.none /\ d.spec.ok /\ d.spec.name \in Listed(expanded[i]))
                      => d.spec.specifier_set \in RecordedFor(d.spec.name)

\* an available version satisfies the constraint of the specification
SatisfiesSome(sp) ==
    \E k \in 1..Len(get_available_versions(sp.name)) :
        Contains(sp.specifier_set, get_available_versions(sp.name)[k])

\* C28: a top-level package with an available version that satisfies its
\* constraint is resolved, by the fallback when none of those versions suits
\* the runtime; it is left out, without an error, only when no available
\* version satisfies the constraint
C28_FallbackToSatisfying ==
    /\ pc # "raised"
    /\ pc = "returned" =>
          \A i \in 1..Len(specs) : SatisfiesSome(specs[i]) => specs[i].name \in ExpandedNames

\* C29: conflict detection starts only after all expansion has finished:
\* the step that makes the detection pass finds every worker ended and its
\* result collected, it is the only step that writes the conflicts, and it
\* leaves the resolved-packages map and the constraints-by-name map as
\* expansion left them
C29_DetectionAfterExpansion ==
    /\ [][(pc = "expand" /\ pc' = "returned") =>
             /\ \A t \in DOMAIN tasks : tasks[t].st = "collected" /\ tasks[t].stack = <<>>
             /\ resolved_packages' = resolved_packages
             /\ package_constraints' = package_constraints]_vars
    /\ [][conflicts' # conflicts => (pc = "expand" /\ pc' = "returned")]_vars

\* a pool of two workers has ended and the detection pass has run on the
\* packages of both
C29_Witness ==
    /\ pc = "returned"
    /\ mode = "pool"
    /\ Len(tasks) = 2
    /\ Len(expanded) = 2
    /\ \A t \in DOMAIN tasks : tasks[t].st = "collected"

\* C25: in every expansion routine a package is in the resolved-packages
\* map before resolution of any of its dependencies begins: at every call
\* made for a dependency of P, P's name is a key of the map
C25_InsertedBeforeDependencies ==
    \A t \in DOMAIN tasks :
        \A k \in 2..Len(tasks[t].stack) :
            DictHas(resolved_packages, tasks[t].stack[k - 1].spec.name)

NamesOf(pkgs) == { pkgs[j].name : j \in 1..Len(pkgs) }

\* C30: the set of resolved package names does not depend on the order of
\* the top-level specifications: the run on a permutation of the list
\* returns, and returns packages of the same names as the run before it
C30_NamesOrderIndependent ==
    run = 2 =>
        /\ pc # "raised"
        /\ pc = "returned" => NamesOf(result.packages) = NamesOf(prev.packages)

\* the packages of the resolved_packages dict whose dependency list names n
Dependents(n) ==
    { m \in DictKeys(resolved_packages) :
        \E d \in DOMAIN heap[DictGet(resolved_packages, m)].dependencies :
            heap[DictGet(resolved_packages, m)].dependencies[d] = n }

\* C31: every conflict detect_conflicts emits has affected_packages equal to
\* the set of resolved packages whose dependency list names the conflicting
\* package, and severity high if that set has more than two members, medium
\* otherwise
C31_AffectedAndSeverity ==
    pc = "returned" =>
        \A i \in DOMAIN conflicts :
            /\ conflicts[i].affected_packages = Dependents(conflicts[i].package_name)
            /\ conflicts[i].severity =
                  (IF Cardinality(Dependents(conflicts[i].package_name)) > 2
                   THEN "high" ELSE "medium")

\* a conflict on "a" was emitted with three dependents, one of which lists
\* "a" in second place
C31_Witness ==
    /\ pc = "returned"
    /\ \E i \in DOMAIN conflicts :
          /\ conflicts[i].package_name = "a"
          /\ conflicts[i].severity = "high"
          /\ Cardinality(conflicts[i].affected_packages) = 3
          /\ \E m \in conflicts[i].affected_packages :
                heap[DictGet(resolved_packages, m)].dependencies = << "b", "a" >>

\* C32: a key of a package's release list that is not a version is left
\* out of the candidates and nothing is raised: get_available_versions
\* returns the remaining versions, and the run returns with a package for
\* every top-level specification that one of the remaining versions
\* satisfies
C32_MalformedVersionExcluded ==
    /\ \A n \in Names :
          (last.op = "get_available_versions" /\ last.key = IndexKey(n) /\ ~last.failed) =>
              /\ ~last.raised
              /\ last.value = get_available_versions(n)
    /\ pc # "raised"
    /\ pc = "returned" =>
          \A i \in 1..Len(specs) :
              HasSatisfying(specs[i]) => specs[i].name \in ResultNames

\* the registry calls in flight: the requests of the coroutines of the
\* batch and those of the threads of the pool
InFlight ==
    Cardinality({ i \in DOMAIN batch.coros : batch.coros[i] = "fetching" })
        + Cardinality({ w \in Workers : workers[w].pos = "fetching" })

\* C33: during concurrent resolution the number of registry calls in
\* flight never exceeds max_workers, the batch pre-fetch of the first-wave
\* package names included
C33_InFlightBounded == InFlight <= NumWorkers

\* C34: in every ResolutionResult each name listed in the dependencies of
\* a package, and so in a value of dependency_tree, is the name of a
\* package of the result, and the keys of dependency_tree are exactly the
\* names of the packages
C34_TreeReferentialIntegrity ==
    pc = "returned" =>
        /\ \A j \in 1..Len(result.packages) :
              \A d \in 1..Len(result.packages[j].dependencies) :
                  result.packages[j].dependencies[d] \in ResultNames
        /\ \A k \in 1..Len(result.dependency_tree) :
              \A d \in 1..Len(result.dependency_tree[k].val) :
                  result.dependency_tree[k].val[d] \in ResultNames
        /\ DictKeys(result.dependency_tree) = ResultNames

\* C35: before conflict resolution is applied, the version of every
\* ResolvedPackage is one of the registry's available versions of its name
\* and satisfies the constraint of the specification, top-level or
\* dependency, whose encounter triggered the resolution of the package
C35_VersionAvailableAndSatisfying ==
    \A t \in DOMAIN tasks :
        \A k \in DOMAIN tasks[t].stack :
            LET f == tasks[t].stack[k]
            IN  (pc = "expand" /\ f.ph = "loop") =>
                    /\ heap[f.obj].name = f.spec.name
                    /\ heap[f.obj].version \in Releases(f.spec.name)
                    /\ Contains(f.spec.specifier_set, heap[f.obj].version)

\* the chosen versions of the resolutions the run applied to the package
\* of name n
AppliedVersions(n) ==
    { result.resolutions[k].chosen_version :
        k \in { j \in 1..Len(result.resolutions) : result.resolutions[j].package_name = n } }

\* the output package out is the input package inp with a version that
\* optimize_versions may give it
OptimizedFrom(out, inp) ==
    /\ out.name = inp.name
    /\ out.dependencies = inp.dependencies
    /\ out.is_direct = inp.is_direct
    /\ out.version # inp.version =>
          /\ is_version_compatible(inp.name, out.version)
          /\ AppliedVersions(inp.name) = {}

\* C36: optimize_versions returns exactly one package per input package,
\* with the same name, dependencies and direct flag, and never changes a
\* package to a version that violates a constraint recorded for the name
\* in the run, nor away from the version an applied conflict resolution chose
C36_OptimizeKeepsPackages ==
    pc = "optimized" =>
        /\ Len(optimized.packages) = Len(result.packages)
        /\ \E f \in Permutations(1..Len(result.packages)) :
              \A i \in 1..Len(result.packages) :
                  OptimizedFrom(optimized.packages[i], result.packages[f[i]])

\* C37: optimize_versions leaves the rest of the ResolutionResult as it
\* was: the result it returns has the conflicts, package_conflicts,
\* resolutions, success flag, dependency_tree and
\* conflict_resolution_strategy of its input, in the sequential and in the
\* thread-pool resolver
C37_OptimizeFrame ==
    pc = "optimized" =>
        /\ optimized.conflicts = result.conflicts
        /\ optimized.package_conflicts = result.package_conflicts
        /\ optimized.resolutions = result.resolutions
        /\ optimized.success = result.success
        /\ optimized.dependency_tree = result.dependency_tree
        /\ optimized.conflict_resolution_strategy = result.conflict_resolution_strategy

\* the step is a call of check_python_compatibility for the key
ChecksKey(key) ==
    /\ stats' # stats
    /\ last'.op = "check_python_compatibility"
    /\ last'.key = key

\* C38: an answer of check_python_compatibility cached under (package,
\* version, runtime) is not subject to the ttl: whatever time has passed, a
\* call for a cached key returns the cached value and reads no metadata,
\* and only clear_cache removes or changes an entry of the cache
C38_CompatCacheHasNoTtl ==
    /\ [][\A key \in DOMAIN compat :
            ChecksKey(key) =>
                /\ last'.value = compat[key]
                /\ last'.present
                /\ last'.fetched = 0 /\ last'.misses = 0
                /\ cache' = cache
                /\ compat' = compat]_vars
    /\ [][\A key \in DOMAIN compat :
            (key \notin DOMAIN compat' \/ compat'[key] # compat[key])
                => last'.op = "clear_cache"]_vars

\* a call was answered from the compatibility cache although the metadata
\* cached along with the answer is older than the ttl
C38_Witness ==
    /\ last.op = "check_python_compatibility"
    /\ last.present
    /\ last.key \in DOMAIN cache
    /\ now - cache[last.key].ts >= CacheTtl

\* the specifications the workers can be handed: the top-level ones and
\* those parsed from the dependency strings of the registry's releases
TopLevelSpecs ==
    { parse_package_spec(package_specs[i]) : i \in 1..Len(package_specs) }

ParsedDependencies(n, v) ==
    { x \in { parse_dependency_string(get_dependencies(n, v)[i]) :
                i \in 1..Len(get_dependencies(n, v)) } : ~x.none }

DeclaredSpecs ==
    { d.spec : d \in UNION { ParsedDependencies(n, v) : n \in Names, v \in Versions } }

\* no name receives two different constraints
OneConstraintPerName ==
    \A s1, s2 \in TopLevelSpecs \cup DeclaredSpecs :
        s1.name = s2.name => s1.specifier_set = s2.specifier_set

\* the version a worker selects for a name under its one constraint, 0 for
\* none or for a name nothing asks for
VersionOfName(n) ==
    LET asked == { s \in TopLevelSpecs \cup DeclaredSpecs : s.name = n }
    IN  IF asked = {} THEN 0 ELSE SelectWorker(CHOOSE s \in asked : TRUE)

\* the names a set of resolved names leads to through the dependencies of
\* the selected versions
RECURSIVE ReachedFrom(_)
ReachedFrom(S) ==
    LET more == S \cup { d.spec.name :
                    d \in { x \in UNION { ParsedDependencies(n, VersionOfName(n)) : n \in S } :
                              VersionOfName(x.spec.name) # 0 } }
    IN  IF more = S THEN S ELSE ReachedFrom(more)

\* the name-to-version map the input determines
DeterminedVersions ==
    { << n, VersionOfName(n) >> :
        n \in ReachedFrom({ s.name : s \in { x \in TopLevelSpecs : SelectWorker(x) # 0 } }) }

\* C39: when no name receives two different constraints, the name-to-version
\* map the pool resolver returns is the one the input determines, whatever
\* the interleaving and the completion order of its workers
C39_PoolMapDeterministic ==
    (pc = "returned" /\ mode = "pool" /\ OneConstraintPerName)
        => VersionsOf(result.packages) = DeterminedVersions

\* two workers each created a package of the same name, under the one
\* constraint the name has, and the call returned a package of that name
C39_Witness ==
    /\ pc = "returned" /\ mode = "pool" /\ OneConstraintPerName
    /\ \E i, j \in 1..Len(heap) : i # j /\ heap[i].name = heap[j].name
    /\ \E t \in DOMAIN tasks : tasks[t].ret > 0
    /\ result.packages # <<>>

====
